---------------------------- MODULE Spec2Model ----------------------------
(***************************************************************************)
(* A model of the Portfolio-Django-Backend repository: the account,        *)
(* contact and project pipelines (repository -> service -> view) over a    *)
(* relational store.  Strings are sequences of one-character strings so    *)
(* that length, trimming, character classes and case are computed as the   *)
(* code computes them.                                                     *)
(***************************************************************************)
EXTENDS Integers, Sequences, FiniteSets, TLC

VARIABLES
    users,      \* the auth_user table: id -> row
    nextId,     \* the next fresh primary key (uuid.uuid4 never repeats)
    workers,    \* how many requests the server runs at once
    budget,     \* how many more requests the server takes in this run
    req,        \* the account requests in flight: worker -> request record
    probe,      \* a value under validation and what the validator said
    contacts,   \* the contact table: id -> row
    projects,   \* the project table: id -> row
    nextRow,    \* the next fresh primary key of the contact and project tables
    purged,     \* the projects hard_delete_project has removed
    lastCall    \* the last finished call of the contact or project service

vars == <<users, nextId, workers, budget, req, probe, contacts, projects, nextRow,
          purged, lastCall>>

---------------------------------------------------------------------------
(* Characters and strings *)

UpperChars == {"A","B","C","D","E","F","G","H","I","J","K","L","M",
               "N","O","P","Q","R","S","T","U","V","W","X","Y","Z"}
LowerChars == {"a","b","c","d","e","f","g","h","i","j","k","l","m",
               "n","o","p","q","r","s","t","u","v","w","x","y","z"}
DigitChars == {"0","1","2","3","4","5","6","7","8","9"}
\* what str.strip() removes
Whitespace == {" ", "\t", "\n", "\r", "\f"}

\* str.lower() on one character
LowerTable == [c \in UpperChars |->
    CASE c = "A" -> "a" [] c = "B" -> "b" [] c = "C" -> "c" [] c = "D" -> "d"
      [] c = "E" -> "e" [] c = "F" -> "f" [] c = "G" -> "g" [] c = "H" -> "h"
      [] c = "I" -> "i" [] c = "J" -> "j" [] c = "K" -> "k" [] c = "L" -> "l"
      [] c = "M" -> "m" [] c = "N" -> "n" [] c = "O" -> "o" [] c = "P" -> "p"
      [] c = "Q" -> "q" [] c = "R" -> "r" [] c = "S" -> "s" [] c = "T" -> "t"
      [] c = "U" -> "u" [] c = "V" -> "v" [] c = "W" -> "w" [] c = "X" -> "x"
      [] c = "Y" -> "y" [] c = "Z" -> "z"]

LowerChar(c) == IF c \in UpperChars THEN LowerTable[c] ELSE c

\* str.lower()
Lower(s) == [i \in 1..Len(s) |-> LowerChar(s[i])]

\* the characters of s at positions a..b (s[a-1:b] in Python)
Slice(s, a, b) == IF a > b THEN <<>> ELSE SubSeq(s, a, b)

\* str.strip(): drop leading and trailing whitespace
RECURSIVE LStrip(_)
LStrip(s) == IF s # <<>> /\ Head(s) \in Whitespace THEN LStrip(Tail(s)) ELSE s

RECURSIVE RStrip(_)
RStrip(s) == IF s # <<>> /\ s[Len(s)] \in Whitespace
             THEN RStrip(SubSeq(s, 1, Len(s) - 1)) ELSE s

Strip(s) == RStrip(LStrip(s))

\* re.search(r'[class]', s)
HasChar(s, class) == \E i \in 1..Len(s) : s[i] \in class

AllIn(s, class) == \A i \in 1..Len(s) : s[i] \in class

---------------------------------------------------------------------------
(* Account validation rules (UserService) *)

MinPasswordLen == 8
MaxPasswordLen == 128
MinUsernameLen == 3
MaxUsernameLen == 100
MaxNameLen == 100

\* the result of a validator that raised nothing
Valid == "ok"

\* UserService._validate_password: the ValueError raised, or Valid
ValidatePasswordNoUpperCheck(password) ==
    IF password = <<>> \/ Len(password) < MinPasswordLen
        THEN "Password must be at least 8 characters"
    ELSE IF Len(password) > MaxPasswordLen
        THEN "Password must not exceed 128 characters"
    ELSE IF ~HasChar(password, LowerChars)
        THEN "Password must contain at least one lowercase letter"
    ELSE IF ~HasChar(password, DigitChars)
        THEN "Password must contain at least one digit"
    ELSE Valid

ValidatePassword(password) ==
    IF password = <<>> \/ Len(password) < MinPasswordLen
        THEN "Password must be at least 8 characters"
    ELSE IF Len(password) > MaxPasswordLen
        THEN "Password must not exceed 128 characters"
    ELSE IF ~HasChar(password, UpperChars)
        THEN "Password must contain at least one uppercase letter"
    ELSE IF ~HasChar(password, LowerChars)
        THEN "Password must contain at least one lowercase letter"
    ELSE IF ~HasChar(password, DigitChars)
        THEN "Password must contain at least one digit"
    ELSE Valid

\* the character classes of the e-mail pattern
\*   ^[a-zA-Z0-9._%+-]+@[a-zA-Z0-9.-]+\.[a-zA-Z]{2,}$
Letters == UpperChars \cup LowerChars
EmailLocalChars == Letters \cup DigitChars \cup {".", "_", "%", "+", "-"}
EmailDomainChars == Letters \cup DigitChars \cup {".", "-"}

\* UserService._is_valid_email: some "@" at i and some later "." at j split the
\* string into a local part, a domain and a top-level name of 2+ letters
IsValidEmail(email) ==
    \E i \in 1..Len(email) : \E j \in 1..Len(email) :
        /\ email[i] = "@"
        /\ email[j] = "."
        /\ i > 1
        /\ AllIn(Slice(email, 1, i - 1), EmailLocalChars)
        /\ j > i + 1
        /\ AllIn(Slice(email, i + 1, j - 1), EmailDomainChars)
        /\ Len(email) - j >= 2
        /\ AllIn(Slice(email, j + 1, Len(email)), Letters)

\* UserService._validate_user_input: the ValueError raised, or Valid
ValidateUserInput(username, email, password, first_name, last_name) ==
    IF username = <<>> \/ Len(Strip(username)) < MinUsernameLen
        THEN "Username must be at least 3 characters"
    ELSE IF Len(username) > MaxUsernameLen
        THEN "Username must not exceed 100 characters"
    ELSE IF ~IsValidEmail(email)
        THEN "Invalid email address"
    ELSE IF ValidatePassword(password) # Valid
        THEN ValidatePassword(password)
    ELSE IF first_name # <<>> /\ Len(first_name) > MaxNameLen
        THEN "First name must not exceed 100 characters"
    ELSE IF last_name # <<>> /\ Len(last_name) > MaxNameLen
        THEN "Last name must not exceed 100 characters"
    ELSE Valid

---------------------------------------------------------------------------
(* The account table and UserRepository *)

\* User.set_password / make_password: the stored value is a tagged digest of
\* the password, never the password itself
MakePassword(password) == <<"pbkdf2_sha256", password>>

\* User.check_password: recompute the digest and compare
CheckHash(hash, password) == hash = MakePassword(password)

\* BaseUserManager.normalize_email, applied by User.objects.create_user: the
\* part after the last "@" is lowercased, the local part is kept
LastAt(email) ==
    IF \E i \in 1..Len(email) : email[i] = "@"
    THEN CHOOSE i \in 1..Len(email) :
            /\ email[i] = "@"
            /\ \A k \in (i + 1)..Len(email) : email[k] # "@"
    ELSE 0

NormalizeEmail(email) ==
    LET s == Strip(email)
        at == LastAt(s)
    IN  IF at = 0 THEN s
        ELSE Slice(s, 1, at) \o Lower(Slice(s, at + 1, Len(s)))

\* the rows with that primary key / username / e-mail (exact match)
IdsByUsername(table, username) == {i \in DOMAIN table : table[i].username = username}
IdsByEmail(table, email) == {i \in DOMAIN table : table[i].email = email}

\* the table's unique constraints (User.username, User.email: unique=True):
\* may `row` be written under primary key `id`?
UniqueOkUnchecked(table, id, row) == TRUE

UniqueOk(table, id, row) ==
    /\ IdsByUsername(table, row.username) \subseteq {id}
    /\ IdsByEmail(table, row.email) \subseteq {id}

\* the table with `row` stored under `id` (INSERT, or UPDATE of every column)
Put(table, id, row) == [i \in DOMAIN table \cup {id} |-> IF i = id THEN row ELSE table[i]]

\* the table without the row `id`
Remove(table, id) == [i \in DOMAIN table \ {id} |-> table[i]]

\* the row User.objects.create_user builds
NewUserRow(username, email, password) ==
    [username  |-> username,
     email     |-> NormalizeEmail(email),
     password  |-> MakePassword(password),
     is_active |-> TRUE,
     is_staff  |-> FALSE]

\* UserRepository.update's loop: every key that is an attribute of the row and
\* is not 'password' is assigned; other keys are skipped
ApplyPatch(row, patch) ==
    [f \in DOMAIN row |->
        IF f \in DOMAIN patch /\ f # "password" THEN patch[f] ELSE row[f]]

\* the primary key user.save() writes under: 'id' and its alias 'pk' are
\* attributes of the loaded object like any column, so the loop assigns them
\* and save() updates, or inserts, the row of the key they name
SavedId(id, patch) ==
    IF "id" \in DOMAIN patch THEN patch.id
    ELSE IF "pk" \in DOMAIN patch THEN patch.pk
    ELSE id

\* attributes of the object that hasattr finds and setattr cannot assign: the
\* properties without a setter (AttributeError)
ReadOnlyAttributes == {"is_authenticated", "is_anonymous"}

---------------------------------------------------------------------------
(* Requests against the account endpoints *)

\* bounds of the model
NumWorkers == 2    \* requests the server may run at once
MaxRequests == 3   \* requests taken in one run of interleaved requests

Workers == 1..NumWorkers

\* the inputs requests are drawn from
Usernames == { <<"a","b","c">>, <<"a","b","d">>, <<"a","b">> }
Emails == { <<"a","@","x",".","i","o">>, <<"a","@","X",".","i","o">>,
            <<"b","@","x",".","i","o">>, <<"a","@","x">> }
Password1 == <<"P","a","s","s","w","o","r","d","1">>
Password2 == <<"P","a","s","s","w","o","r","d","2">>
WeakPassword == <<"p","a","s","s","w","o","r","d","1">>
Passwords == { Password1, Password2, WeakPassword }

\* the keyword arguments update_user is called with
Patches ==
    { [email |-> e] : e \in {<<"a","@","x",".","i","o">>, <<"b","@","x",".","i","o">>} }
    \cup { [username |-> <<"a","b","c">>] }
    \cup { [is_active |-> FALSE] }
    \cup { [password |-> Password2] }
    \cup { [nickname |-> <<"n">>] }

NoRow == [username |-> <<>>, email |-> <<>>, password |-> <<>>, is_active |-> FALSE,
          is_staff |-> FALSE]
NoResponse == [status |-> 0, message |-> "", error |-> ""]

\* a worker with no request
Idle == [op |-> "none", pc |-> "idle", via |-> "none",
         username |-> <<>>, email |-> <<>>, password |-> <<>>, new_password |-> <<>>,
         id |-> 0, patch |-> <<>>, loaded |-> NoRow,
         outcome |-> "none", msg |-> "", created |-> 0, response |-> NoResponse]

Busy == {p \in Workers : req[p].pc # "idle"}

\* a new request is taken while a worker of the server is free (the free
\* worker of lowest number takes it: workers are interchangeable)
CanStart(p) ==
    /\ req[p].pc = "idle"
    /\ \A q \in Workers : q < p => req[q].pc # "idle"
    /\ Cardinality(Busy) < workers
    /\ budget > 0

\* standardized_response as register_user builds it for each way
\* service.create_user ends
RegisterUserResponse(outcome, msg) ==
    CASE outcome = "created" ->
            [status |-> 201, message |-> "User registered successfully", error |-> ""]
      [] outcome = "ValueError" ->
            [status |-> 400, message |-> "Registration failed", error |-> msg]
      [] outcome = "invalid" ->
            [status |-> 400, message |-> "Validation failed", error |-> msg]
      [] OTHER ->
            [status |-> 500, message |-> "An error occurred while creating the user",
             error |-> msg]

\* the request of worker p ends with `outcome`; a view request gets its response
Finish(r, outcome, msg) ==
    [r EXCEPT !.pc = "done", !.outcome = outcome, !.msg = msg, !.loaded = NoRow,
              !.response = IF r.via = "view" /\ r.op = "create_user"
                           THEN RegisterUserResponse(outcome, msg)
                           ELSE NoResponse]

\* UserCreateSerializer.is_valid: the field rules of the serializer (password
\* min_length=8, username max_length=100, an e-mail address) and the
\* UniqueValidators a ModelSerializer derives from unique=True.  On the strings
\* modelled here Django's EmailValidator and the service's pattern agree.
SerializerErrors(table, username, email, password) ==
    IF username = <<>> \/ Len(username) > MaxUsernameLen THEN "username"
    ELSE IF IdsByUsername(table, username) # {} THEN "username: already exists"
    ELSE IF ~IsValidEmail(email) THEN "email"
    ELSE IF IdsByEmail(table, email) # {} THEN "email: already exists"
    ELSE IF Len(password) < MinPasswordLen THEN "password"
    ELSE Valid

\* register_user, up to the call of the service: CharFields trim their input
StartRegister(p, username, email, password) ==
    /\ CanStart(p)
    /\ LET u == Strip(username)
           e == Strip(email)
           pw == Strip(password)
           r == [Idle EXCEPT !.op = "create_user", !.via = "view",
                             !.username = u, !.email = e, !.password = pw]
           err == SerializerErrors(users, u, e, pw)
       IN  req' = [req EXCEPT ![p] =
                IF err # Valid THEN Finish(r, "invalid", err)
                ELSE [r EXCEPT !.pc = "serialized"]]
    /\ budget' = budget - 1
    /\ UNCHANGED <<users, nextId, workers>>

\* UserService.create_user, first statement: _validate_user_input
Validate(r) ==
    LET err == ValidateUserInput(r.username, r.email, r.password, <<>>, <<>>)
    IN  IF err # Valid THEN Finish(r, "ValueError", err)
        ELSE [r EXCEPT !.pc = "check_username"]

\* a direct call of UserService.create_user
StartCreateUser(p, username, email, password) ==
    /\ CanStart(p)
    /\ req' = [req EXCEPT ![p] =
            Validate([Idle EXCEPT !.op = "create_user", !.via = "service",
                                  !.username = username, !.email = email,
                                  !.password = password])]
    /\ budget' = budget - 1
    /\ UNCHANGED <<users, nextId, workers>>

\* register_user calls service.create_user(**serializer.validated_data)
CallService(p) ==
    /\ req[p].pc = "serialized"
    /\ req' = [req EXCEPT ![p] = Validate(req[p])]
    /\ UNCHANGED <<users, nextId, workers, budget>>

\* create_user: if self.repository.get_by_username(username): raise ValueError
CheckUsername(p) ==
    /\ req[p].pc = "check_username"
    /\ req' = [req EXCEPT ![p] =
            IF IdsByUsername(users, req[p].username) # {}
            THEN Finish(req[p], "ValueError", "Username already exists")
            ELSE [req[p] EXCEPT !.pc = "check_email"]]
    /\ UNCHANGED <<users, nextId, workers, budget>>

\* create_user: if self.repository.get_by_email(email): raise ValueError
CheckEmail(p) ==
    /\ req[p].pc = "check_email"
    /\ req' = [req EXCEPT ![p] =
            IF IdsByEmail(users, req[p].email) # {}
            THEN Finish(req[p], "ValueError", "Email already exists")
            ELSE [req[p] EXCEPT !.pc = "insert"]]
    /\ UNCHANGED <<users, nextId, workers, budget>>

\* str(e) of the IntegrityError an INSERT of `row` raises: the database names
\* the constraint that refused the row
IntegrityErrorText(table, id, row) ==
    IF ~(IdsByUsername(table, row.username) \subseteq {id})
    THEN "UNIQUE constraint failed: authentication_user.username"
    ELSE "UNIQUE constraint failed: authentication_user.email"

\* create_user: self.repository.create(...): User.objects.create_user INSERTs
\* the row; the table's unique constraints reject it with IntegrityError,
\* which neither the repository nor the service catches
Insert(p) ==
    /\ req[p].pc = "insert"
    /\ LET row == NewUserRow(req[p].username, req[p].email, req[p].password)
       IN  IF UniqueOk(users, nextId, row)
           THEN /\ users' = Put(users, nextId, row)
                /\ nextId' = nextId + 1
                /\ req' = [req EXCEPT ![p] =
                        Finish([req[p] EXCEPT !.created = nextId], "created", "")]
           ELSE /\ req' = [req EXCEPT ![p] =
                        Finish(req[p], "IntegrityError",
                               IntegrityErrorText(users, nextId, row))]
                /\ UNCHANGED <<users, nextId>>
    /\ UNCHANGED <<workers, budget>>

\* UserService.update_user -> UserRepository.update, up to User.objects.get
StartUpdate(p, id, patch) ==
    /\ CanStart(p)
    /\ LET r == [Idle EXCEPT !.op = "update_user", !.via = "service",
                             !.id = id, !.patch = patch]
       IN  req' = [req EXCEPT ![p] =
                IF id \in DOMAIN users
                THEN [r EXCEPT !.pc = "save", !.loaded = users[id]]
                ELSE Finish(r, "None", "")]
    /\ budget' = budget - 1
    /\ UNCHANGED <<users, nextId, workers>>

\* UserRepository.update: the setattr loop and user.save().  save() writes
\* every column of the loaded row by primary key and INSERTs the row when the
\* UPDATE matched none; the unique constraints apply to either
Save(p) ==
    /\ req[p].pc = "save"
    /\ LET row == ApplyPatch(req[p].loaded, req[p].patch)
           id == SavedId(req[p].id, req[p].patch)
       IN  IF DOMAIN req[p].patch \cap ReadOnlyAttributes # {}
           THEN /\ req' = [req EXCEPT ![p] =
                        Finish(req[p], "AttributeError", "can't set attribute")]
                /\ UNCHANGED users
           ELSE IF UniqueOk(users, id, row)
           THEN /\ users' = Put(users, id, row)
                /\ req' = [req EXCEPT ![p] = Finish(req[p], "updated", "")]
           ELSE /\ req' = [req EXCEPT ![p] =
                        Finish(req[p], "IntegrityError", "UNIQUE constraint failed")]
                /\ UNCHANGED users
    /\ UNCHANGED <<nextId, workers, budget>>

\* a deletion that keeps the row as a tombstone: the account is marked
\* inactive and stays in the table
DeleteUserKeepingRow(p, id) ==
    /\ CanStart(p)
    /\ LET r == [Idle EXCEPT !.op = "delete_user", !.via = "service", !.id = id]
       IN  IF id \in DOMAIN users
           THEN /\ users' = Put(users, id, [users[id] EXCEPT !.is_active = FALSE])
                /\ req' = [req EXCEPT ![p] = Finish(r, "True", "")]
           ELSE /\ req' = [req EXCEPT ![p] = Finish(r, "False", "")]
                /\ UNCHANGED users
    /\ budget' = budget - 1
    /\ UNCHANGED <<nextId, workers>>

\* UserService.delete_user -> UserRepository.delete
DeleteUser(p, id) ==
    /\ CanStart(p)
    /\ LET r == [Idle EXCEPT !.op = "delete_user", !.via = "service", !.id = id]
       IN  IF id \in DOMAIN users
           THEN /\ users' = Remove(users, id)
                /\ req' = [req EXCEPT ![p] = Finish(r, "True", "")]
           ELSE /\ req' = [req EXCEPT ![p] = Finish(r, "False", "")]
                /\ UNCHANGED users
    /\ budget' = budget - 1
    /\ UNCHANGED <<nextId, workers>>

\* the result reaches the caller and the worker is free again
Return(p) ==
    /\ req[p].pc = "done"
    /\ req' = [req EXCEPT ![p] = Idle]
    /\ UNCHANGED <<users, nextId, workers, budget>>


\* the state before any request
NoAccounts ==
    /\ users = <<>>
    /\ nextId = 1
    /\ req = [p \in Workers |-> Idle]

Unprobed == [arg |-> <<>>, stage |-> "none", result |-> ""]
NoProbe == probe = Unprobed

NoCall == [op |-> "none", id |-> 0, arg |-> "", outcome |-> "none", msg |-> ""]
NoRows ==
    /\ contacts = <<>>
    /\ projects = <<>>
    /\ nextRow = 1
    /\ purged = {}
    /\ lastCall = NoCall

\* the inputs of the requests that race each other
RaceUsernames == { <<"a","b","c">>, <<"a","b","d">> }
RaceEmails == { <<"a","@","x",".","i","o">>, <<"a","@","X",".","i","o">>,
                <<"b","@","x",".","i","o">> }
RacePasswords == { Password1 }
RacePatches == { [email |-> <<"a","@","x",".","i","o">>],
                 [username |-> <<"a","b","c">>],
                 [is_active |-> FALSE] }

\* registration, update and deletion requests, interleaved between queries
NextUser ==
    /\ UNCHANGED <<probe, contacts, projects, nextRow, purged, lastCall>>
    /\ \E p \in Workers :
            \/ \E u \in RaceUsernames, e \in RaceEmails, pw \in RacePasswords :
                    StartRegister(p, u, e, pw)
            \/ CallService(p)
            \/ CheckUsername(p)
            \/ CheckEmail(p)
            \/ Insert(p)
            \/ \E id \in 1..nextId, patch \in RacePatches : StartUpdate(p, id, patch)
            \/ Save(p)
            \/ \E id \in 1..nextId : DeleteUser(p, id)
            \/ Return(p)

\* the server run with every worker: requests interleave between queries
InitUser ==
    /\ NoAccounts
    /\ NoProbe
    /\ NoRows
    /\ workers = NumWorkers
    /\ budget = MaxRequests

SpecUser == InitUser /\ [][NextUser]_vars

---------------------------------------------------------------------------
(* Authentication and password changes (each handler runs to completion) *)

None == 0

\* UserService.authenticate: the account found, or None, and what is logged
AuthenticateNoActiveCheck(table, username, password) ==
    LET ids == IdsByUsername(table, username)
        id == CHOOSE i \in ids : TRUE
    IN  IF ids = {}
            THEN [user |-> None, log |-> "Authentication failed: user not found"]
        ELSE IF ~CheckHash(table[id].password, password)
            THEN [user |-> None, log |-> "Authentication failed: invalid password"]
        ELSE [user |-> id, log |-> "User authenticated successfully"]

Authenticate(table, username, password) ==
    LET ids == IdsByUsername(table, username)
        id == CHOOSE i \in ids : TRUE
    IN  IF ids = {}
            THEN [user |-> None, log |-> "Authentication failed: user not found"]
        ELSE IF ~table[id].is_active
            THEN [user |-> None, log |-> "Authentication failed: user inactive"]
        ELSE IF ~CheckHash(table[id].password, password)
            THEN [user |-> None, log |-> "Authentication failed: invalid password"]
        ELSE [user |-> id, log |-> "User authenticated successfully"]

\* authenticate_user: the response built from what the service returned
AuthenticateUserResponseWithLog(result) ==
    IF result.user # None
    THEN [status |-> 200, message |-> "Login successful", error |-> ""]
    ELSE [status |-> 401, message |-> "Login failed", error |-> result.log]

AuthenticateUserResponse(result) ==
    IF result.user # None
    THEN [status |-> 200, message |-> "Login successful", error |-> ""]
    ELSE [status |-> 401, message |-> "Login failed", error |-> "Invalid credentials"]

\* UserRepository.set_password: the new table, or the same one and False
SetPassword(table, id, password) ==
    IF id \in DOMAIN table
    THEN [ok |-> TRUE,
          table |-> Put(table, id, [table[id] EXCEPT !.password = MakePassword(password)])]
    ELSE [ok |-> FALSE, table |-> table]

\* UserRepository.check_password
CheckPassword(table, id, password) ==
    id \in DOMAIN table /\ CheckHash(table[id].password, password)

\* UserService.change_password: what it returns or raises, and the table after
ChangePasswordSetBeforeValidate(table, id, old_password, new_password) ==
    IF id \notin DOMAIN table THEN [outcome |-> "False", msg |-> "", table |-> table]
    ELSE IF ~CheckPassword(table, id, old_password)
        THEN [outcome |-> "False", msg |-> "", table |-> table]
    ELSE IF ValidatePassword(new_password) # Valid
        THEN [outcome |-> "ValueError", msg |-> ValidatePassword(new_password),
              table |-> SetPassword(table, id, new_password).table]
    ELSE [outcome |-> "True", msg |-> "",
          table |-> SetPassword(table, id, new_password).table]

\* change_password with the new password validated before the old one is
\* verified
ChangePasswordValidateFirst(table, id, old_password, new_password) ==
    IF id \notin DOMAIN table THEN [outcome |-> "False", msg |-> "", table |-> table]
    ELSE IF ValidatePassword(new_password) # Valid
        THEN [outcome |-> "ValueError", msg |-> ValidatePassword(new_password),
              table |-> table]
    ELSE IF ~CheckPassword(table, id, old_password)
        THEN [outcome |-> "False", msg |-> "", table |-> table]
    ELSE [outcome |-> "True", msg |-> "",
          table |-> SetPassword(table, id, new_password).table]

ChangePassword(table, id, old_password, new_password) ==
    IF id \notin DOMAIN table THEN [outcome |-> "False", msg |-> "", table |-> table]
    ELSE IF ~CheckPassword(table, id, old_password)
        THEN [outcome |-> "False", msg |-> "", table |-> table]
    ELSE IF ValidatePassword(new_password) # Valid
        THEN [outcome |-> "ValueError", msg |-> ValidatePassword(new_password),
              table |-> table]
    ELSE [outcome |-> "True", msg |-> "",
          table |-> SetPassword(table, id, new_password).table]

\* UserRepository.activate / deactivate
SetActive(table, id, flag) ==
    IF id \in DOMAIN table
    THEN [ok |-> TRUE, table |-> Put(table, id, [table[id] EXCEPT !.is_active = flag])]
    ELSE [ok |-> FALSE, table |-> table]

\* authenticate_user (AuthenticationSerializer trims both fields and refuses
\* a blank one) calling UserService.authenticate
AuthenticateUser(p, username, password) ==
    /\ CanStart(p)
    /\ LET u == Strip(username)
           pw == Strip(password)
           r == [Idle EXCEPT !.op = "authenticate", !.via = "view",
                             !.username = u, !.password = pw]
           result == Authenticate(users, u, pw)
       IN  req' = [req EXCEPT ![p] =
                IF u = <<>> \/ pw = <<>>
                THEN [r EXCEPT !.pc = "done", !.outcome = "invalid",
                               !.response = [status |-> 400, message |-> "Validation failed",
                                             error |-> "This field may not be blank."]]
                ELSE [r EXCEPT !.pc = "done", !.id = result.user,
                               !.outcome = IF result.user = None THEN "None" ELSE "user",
                               !.msg = result.log,
                               !.response = AuthenticateUserResponse(result)]]
    /\ budget' = budget - 1
    /\ UNCHANGED <<users, nextId, workers>>

\* a call of UserService.change_password
ChangePasswordCall(p, id, old_password, new_password) ==
    /\ CanStart(p)
    /\ LET r == [Idle EXCEPT !.op = "change_password", !.via = "service", !.id = id,
                             !.password = old_password, !.new_password = new_password]
           result == ChangePassword(users, id, old_password, new_password)
       IN  /\ users' = result.table
           /\ req' = [req EXCEPT ![p] = Finish(r, result.outcome, result.msg)]
    /\ budget' = budget - 1
    /\ UNCHANGED <<nextId, workers>>

\* a call of UserService.deactivate_user / activate_user
SetActiveCall(p, id, flag) ==
    /\ CanStart(p)
    /\ LET r == [Idle EXCEPT !.op = IF flag THEN "activate_user" ELSE "deactivate_user",
                             !.via = "service", !.id = id]
           result == SetActive(users, id, flag)
       IN  /\ users' = result.table
           /\ req' = [req EXCEPT ![p] = Finish(r, IF result.ok THEN "True" ELSE "False", "")]
    /\ budget' = budget - 1
    /\ UNCHANGED <<nextId, workers>>

MaxSeqRequests == 4   \* requests taken in one run of one request at a time

\* every account operation, one request at a time
NextUserSeq ==
    /\ UNCHANGED <<probe, contacts, projects, nextRow, purged, lastCall>>
    /\ \E p \in Workers :
            \/ \E u \in Usernames, e \in Emails, pw \in Passwords :
                    StartCreateUser(p, u, e, pw)
            \/ CheckUsername(p)
            \/ CheckEmail(p)
            \/ Insert(p)
            \/ \E id \in 1..nextId, patch \in Patches : StartUpdate(p, id, patch)
            \/ Save(p)
            \/ \E id \in 1..nextId : DeleteUser(p, id)
            \/ \E u \in Usernames, pw \in Passwords : AuthenticateUser(p, u, pw)
            \/ \E id \in 1..nextId, old \in Passwords, new \in Passwords :
                    ChangePasswordCall(p, id, old, new)
            \/ \E id \in 1..nextId, flag \in BOOLEAN : SetActiveCall(p, id, flag)
            \/ Return(p)

InitUserSeq ==
    /\ NoAccounts
    /\ NoProbe
    /\ NoRows
    /\ workers = 1
    /\ budget = MaxSeqRequests

SpecUserSeq == InitUserSeq /\ [][NextUserSeq]_vars

---------------------------------------------------------------------------
(* Claims about accounts *)

\* C1: in every state reached by interleaved registration, update and
\* deletion requests, no two stored accounts share a username and no two
\* share an e-mail address.
C1_UniqueUsernameAndEmail ==
    \A i \in DOMAIN users : \A j \in DOMAIN users :
        i # j => /\ users[i].username # users[j].username
                 /\ users[i].email # users[j].email

\* two accounts are stored and the table has just refused the write of a
\* request that raced past every check made before it
C1_Witness ==
    /\ Cardinality(DOMAIN users) >= 2
    /\ \E p \in Workers : req[p].pc = "done" /\ req[p].outcome = "IntegrityError"

\* the finished create_user call of worker p, made with a triple that passes
\* the validation rules
FinishedCreate(p) ==
    /\ req[p].pc = "done"
    /\ req[p].op = "create_user"
    /\ ValidateUserInput(req[p].username, req[p].email, req[p].password, <<>>, <<>>) = Valid

\* the table as it was when the finished call of worker p began (one request
\* runs at a time)
TableBefore(p) == IF req[p].created # 0 THEN Remove(users, req[p].created) ELSE users

\* C2: with one request at a time, create_user with a valid triple succeeds
\* when neither its username nor its e-mail (in the form a stored account
\* holds it) is stored, and otherwise fails with a ValueError (the Conflict)
\* and stores nothing.
C2_CreateOnceThenConflict ==
    \A p \in Workers : FinishedCreate(p) =>
        LET taken == \/ IdsByUsername(TableBefore(p), req[p].username) # {}
                     \/ IdsByEmail(TableBefore(p), NormalizeEmail(req[p].email)) # {}
        IN  /\ req[p].outcome \in {"created", "ValueError"}
            /\ req[p].outcome = "created" <=> ~taken
            /\ req[p].outcome = "created" <=> req[p].created # 0

\* C3: a registration that passed the existence checks and whose INSERT the
\* unique constraint then refused is answered 400, like any other conflict.
C3_RaceReportedAsConflict ==
    \A p \in Workers :
        ( /\ req[p].pc = "done"
          /\ req[p].op = "create_user"
          /\ req[p].via = "view"
          /\ req[p].email = NormalizeEmail(req[p].email)
          /\ req[p].outcome = "IntegrityError" )
        => req[p].response.status = 400

\* the three conditions of a successful authentication
CanLogIn(table, username, password) ==
    \E id \in DOMAIN table :
        /\ table[id].username = username
        /\ table[id].is_active
        /\ CheckHash(table[id].password, password)

\* C4: authenticate returns the account exactly when the username is stored,
\* the account is active and the password matches the stored hash, and
\* returns the absent result otherwise.
C4_AuthenticateIff ==
    /\ \A u \in Usernames : \A pw \in Passwords :
            LET found == Authenticate(users, u, pw).user
            IN  /\ found # None <=> CanLogIn(users, u, pw)
                /\ found # None => found \in DOMAIN users /\ users[found].username = u
    /\ \A p \in Workers :
            (req[p].pc = "done" /\ req[p].op = "authenticate" /\ req[p].outcome # "invalid")
            => /\ req[p].outcome = "user" <=> CanLogIn(users, req[p].username, req[p].password)
               /\ req[p].outcome = "None" <=> req[p].id = None

\* a login with the right password of a deactivated account was refused
C4_Witness ==
    \E p \in Workers : \E id \in DOMAIN users :
        /\ req[p].pc = "done" /\ req[p].op = "authenticate" /\ req[p].outcome = "None"
        /\ users[id].username = req[p].username
        /\ ~users[id].is_active
        /\ CheckHash(users[id].password, req[p].password)

\* the one response of a failed login
LoginFailed == [status |-> 401, message |-> "Login failed", error |-> "Invalid credentials"]

\* C5: a failed login is answered the same way whatever made it fail: the
\* service result is the absent one and the response is the same 401 body.
C5_UniformFailure ==
    /\ \A u \in Usernames : \A pw \in Passwords :
            Authenticate(users, u, pw).user = None
            => AuthenticateUserResponse(Authenticate(users, u, pw)) = LoginFailed
    /\ \A p \in Workers :
            (req[p].pc = "done" /\ req[p].op = "authenticate" /\ req[p].outcome = "None")
            => req[p].response = LoginFailed

\* a login failed on the password of an active account, while the same table
\* also holds a deactivated account and lacks one of the usernames
C5_Witness ==
    \E p \in Workers : \E id \in DOMAIN users : \E other \in DOMAIN users :
        /\ req[p].pc = "done" /\ req[p].op = "authenticate" /\ req[p].outcome = "None"
        /\ users[id].username = req[p].username
        /\ users[id].is_active
        /\ ~CheckHash(users[id].password, req[p].password)
        /\ ~users[other].is_active
        /\ \E u \in Usernames : IdsByUsername(users, u) = {}

\* C6: a successful change_password leaves the account's hash matching the
\* new password and, when the two differ, no longer the old one, and touches
\* no other account; a failed one leaves the whole table as it was.
C6_ChangePassword ==
    [][ \A p \in Workers :
            (req[p].pc = "idle" /\ req'[p].op = "change_password") =>
                IF req'[p].outcome = "True"
                THEN /\ req'[p].id \in DOMAIN users'
                     /\ DOMAIN users' = DOMAIN users
                     /\ CheckHash(users'[req'[p].id].password, req'[p].new_password)
                     /\ req'[p].password # req'[p].new_password
                            => ~CheckHash(users'[req'[p].id].password, req'[p].password)
                     /\ \A i \in DOMAIN users : i # req'[p].id => users'[i] = users[i]
                     /\ users[req'[p].id].is_active =>
                            /\ Authenticate(users', users[req'[p].id].username,
                                            req'[p].new_password).user = req'[p].id
                            /\ req'[p].password # req'[p].new_password =>
                                    Authenticate(users', users[req'[p].id].username,
                                                 req'[p].password).user = None
                ELSE users' = users ]_vars

\* a password was changed to a different one
C6_Witness ==
    \E p \in Workers :
        /\ req[p].pc = "done" /\ req[p].op = "change_password" /\ req[p].outcome = "True"
        /\ req[p].password # req[p].new_password
        /\ CheckHash(users[req[p].id].password, req[p].new_password)

---------------------------------------------------------------------------
(* Password validation on its own *)

MaxPrefix == 3    \* the longest free prefix of a probed password

\* one character of each class the rule reads, and one of none
ProbeChars == {"P", "a", "1", "!"}

\* `prefix` followed by the character c up to length n
Pad(prefix, c, n) == [i \in 1..n |-> IF i <= Len(prefix) THEN prefix[i] ELSE c]

\* the lengths around both limits of the rule
ProbeLens == {0, 5, MinPasswordLen - 1, MinPasswordLen, MinPasswordLen + 1,
              MaxPasswordLen - 1, MaxPasswordLen, MaxPasswordLen + 1}

\* every prefix over ProbeChars, continued by "!" to every probed length
ProbedPasswords ==
    { Pad(prefix, "!", n) :
        prefix \in UNION { [1..k -> ProbeChars] : k \in 0..MaxPrefix },
        n \in ProbeLens }
    \cup { <<"p","a","s","s","w","o","r","d","1">>,
           <<"P","A","S","S","W","O","R","D","1">>,
           <<"P","a","s","s","w","o","r","d">>,
           <<"P","a","s","s","1">>,
           <<"P","a","s","s","w","o","r","d","1">> }

\* _validate_password applied to the probed password
ValidateProbe ==
    /\ probe.stage = "given"
    /\ probe' = [probe EXCEPT !.stage = "checked", !.result = ValidatePassword(probe.arg)]
    /\ UNCHANGED <<users, nextId, workers, budget, req, contacts, projects, nextRow,
                   purged, lastCall>>

NextPassword == ValidateProbe

InitPassword ==
    /\ NoAccounts
    /\ NoRows
    /\ workers = 1
    /\ budget = 0
    /\ probe \in { [arg |-> pw, stage |-> "given", result |-> ""] : pw \in ProbedPasswords }

SpecPassword == InitPassword /\ [][NextPassword]_vars

\* C7: a password is accepted exactly when it has 8 to 128 characters and
\* holds an uppercase letter, a lowercase letter and a digit; every other
\* password is refused with a validation error.
C7_PasswordRule ==
    probe.stage = "checked" =>
        /\ probe.result = Valid <=>
                /\ Len(probe.arg) >= 8
                /\ Len(probe.arg) <= 128
                /\ \E i \in 1..Len(probe.arg) : probe.arg[i] \in UpperChars
                /\ \E i \in 1..Len(probe.arg) : probe.arg[i] \in LowerChars
                /\ \E i \in 1..Len(probe.arg) : probe.arg[i] \in DigitChars
        /\ probe.arg \in { <<"p","a","s","s","w","o","r","d","1">>,
                           <<"P","A","S","S","W","O","R","D","1">>,
                           <<"P","a","s","s","w","o","r","d">>,
                           <<"P","a","s","s","1">> } => probe.result # Valid
        /\ probe.arg = <<"P","a","s","s","w","o","r","d","1">> => probe.result = Valid

\* a password of exactly 128 characters was accepted
C7_Witness ==
    /\ probe.stage = "checked"
    /\ Len(probe.arg) = 128
    /\ probe.result = Valid

---------------------------------------------------------------------------
(* Contacts: ContactCreateSerializer, ContactService, ContactRepository *)

MinFullNameLen == 2
MaxFullNameLen == 100
MinSubjectLen == 5
MaxSubjectLen == 100
MinMessageLen == 10
MaxMessageLen == 5000
SerializerMinSubjectLen == 3

\* valid_statuses in ContactService
ValidStatuses == {"new", "contacted", "closed"}

\* code points below 32 among the characters used ("^A" stands for U+0001)
ControlChars == {"\t", "\n", "\r", "\f", "^A"}

\* the value of a record field, or the default when the key is missing
Get(data, key, default) == IF key \in DOMAIN data THEN data[key] ELSE default

\* ContactService._validate_contact_input: the ValueError raised, or Valid
ValidateContactInput(full_name, email, subject, message) ==
    IF full_name = <<>> \/ Len(Strip(full_name)) < MinFullNameLen
        THEN "Full name must be at least 2 characters"
    ELSE IF Len(full_name) > MaxFullNameLen
        THEN "Full name must not exceed 100 characters"
    ELSE IF ~IsValidEmail(email)
        THEN "Invalid email address"
    ELSE IF subject = <<>> \/ Len(Strip(subject)) < MinSubjectLen
        THEN "Subject must be at least 5 characters"
    ELSE IF Len(subject) > MaxSubjectLen
        THEN "Subject must not exceed 100 characters"
    ELSE IF message = <<>> \/ Len(Strip(message)) < MinMessageLen
        THEN "Message must be at least 10 characters"
    ELSE IF Len(message) > MaxMessageLen
        THEN "Message must not exceed 5000 characters"
    ELSE Valid

\* the characters of s that satisfy Keep, in order
RECURSIVE Filter(_, _)
Filter(s, keep) ==
    IF s = <<>> THEN <<>>
    ELSE IF Head(s) \in keep THEN <<Head(s)>> \o Filter(Tail(s), keep)
    ELSE Filter(Tail(s), keep)

RECURSIVE Drop(_, _)
Drop(s, drop) ==
    IF s = <<>> THEN <<>>
    ELSE IF Head(s) \in drop THEN Drop(Tail(s), drop)
    ELSE <<Head(s)>> \o Drop(Tail(s), drop)

\* ContactService._sanitize_text: strip, then drop every character below 32
\* other than newline, carriage return and tab
SanitizeText(text) ==
    IF text = <<>> THEN <<>>
    ELSE Drop(Strip(text), ControlChars \ {"\n", "\r", "\t"})

\* ContactService._sanitize_email
SanitizeEmail(email) == Lower(Strip(email))

\* ContactService._sanitize_phone: re.sub(r'[^\d+\-() ]', '', phone).strip()
SanitizePhone(phone) == Strip(Filter(phone, DigitChars \cup {"+", "-", "(", ")", " "}))

\* Meta.fields of ContactCreateSerializer
ContactCreateFields ==
    {"full_name", "email", "phone_number", "subject", "message", "file_attached",
     "preferred_contact_method", "organization"}

\* the parameters of ContactService.create_contact
CreateContactParams ==
    {"full_name", "email", "subject", "message", "phone_number",
     "preferred_contact_method", "ip_address", "user_agent", "organization"}

\* the fields whose values are text
TextFields == {"full_name", "email", "phone_number", "subject", "message", "organization"}

\* serializer.validated_data: the keys of the body the serializer declares,
\* text values trimmed
ValidatedData(body) ==
    [f \in DOMAIN body \cap ContactCreateFields |->
        IF f \in TextFields THEN Strip(body[f]) ELSE body[f]]

\* ContactCreateSerializer.is_valid: required fields, the lengths of the
\* model's columns and the validate_<field> methods
ContactSerializerErrors(body) ==
    LET data == ValidatedData(body)
    IN  IF ~({"full_name", "email", "subject", "message"} \subseteq DOMAIN data)
            THEN "This field is required."
        ELSE IF data.full_name = <<>> \/ Len(data.full_name) > MaxFullNameLen
                \/ Len(Strip(data.full_name)) < MinFullNameLen
            THEN "Full name must be at least 2 characters"
        ELSE IF ~HasChar(data.email, {"@"}) \/ ~IsValidEmail(data.email)
            THEN "Invalid email address"
        ELSE IF data.subject = <<>> \/ Len(data.subject) > MaxSubjectLen
                \/ Len(Strip(data.subject)) < SerializerMinSubjectLen
            THEN "Subject must be at least 3 characters"
        ELSE IF data.message = <<>> \/ Len(Strip(data.message)) < MinMessageLen
            THEN "Message must be at least 10 characters"
        ELSE Valid

\* the row create_contact hands to ContactRepository.create: the sanitized
\* fields and status='new'
NewContactRowStatusFromMethod(data) ==
    [full_name    |-> SanitizeText(data.full_name),
     email        |-> SanitizeEmail(data.email),
     subject      |-> SanitizeText(data.subject),
     message      |-> SanitizeText(data.message),
     phone_number |-> IF Get(data, "phone_number", <<>>) # <<>>
                      THEN SanitizePhone(data.phone_number) ELSE <<>>,
     organization |-> IF Get(data, "organization", <<>>) # <<>>
                      THEN SanitizeText(data.organization) ELSE <<>>,
     preferred_contact_method |-> Get(data, "preferred_contact_method", "None"),
     status       |-> Get(data, "preferred_contact_method", "new")]

NewContactRow(data) ==
    [full_name    |-> SanitizeText(data.full_name),
     email        |-> SanitizeEmail(data.email),
     subject      |-> SanitizeText(data.subject),
     message      |-> SanitizeText(data.message),
     phone_number |-> IF Get(data, "phone_number", <<>>) # <<>>
                      THEN SanitizePhone(data.phone_number) ELSE <<>>,
     organization |-> IF Get(data, "organization", <<>>) # <<>>
                      THEN SanitizeText(data.organization) ELSE <<>>,
     preferred_contact_method |-> Get(data, "preferred_contact_method", "None"),
     status       |-> "new"]

\* ContactService.create_contact(**data): what it returns or raises, and the
\* table after
CreateContact(table, id, data) ==
    IF ~(DOMAIN data \subseteq CreateContactParams)
        THEN [outcome |-> "TypeError", msg |-> "unexpected keyword argument", table |-> table]
    ELSE IF ValidateContactInput(data.full_name, data.email, data.subject, data.message) # Valid
        THEN [outcome |-> "ValueError",
              msg |-> ValidateContactInput(data.full_name, data.email, data.subject,
                                           data.message),
              table |-> table]
    ELSE [outcome |-> "created", msg |-> "", table |-> Put(table, id, NewContactRow(data))]

\* ContactService.update_contact_status -> ContactRepository.update
UpdateContactStatusUnchecked(table, id, status) ==
    IF id \notin DOMAIN table THEN [outcome |-> "None", msg |-> "", table |-> table]
    ELSE [outcome |-> "updated", msg |-> "",
          table |-> Put(table, id, [table[id] EXCEPT !.status = status])]

UpdateContactStatus(table, id, status) ==
    IF status \notin ValidStatuses
        THEN [outcome |-> "ValueError", msg |-> "Invalid status", table |-> table]
    ELSE IF id \notin DOMAIN table THEN [outcome |-> "None", msg |-> "", table |-> table]
    ELSE [outcome |-> "updated", msg |-> "",
          table |-> Put(table, id, [table[id] EXCEPT !.status = status])]

\* what submitters send
ContactNames == { <<"A","l">>, <<" ","A"," ">> }
ContactEmails == { <<"A","@","x",".","i","o">>, <<"a","x">> }
ContactSubjects == { <<"H","e","l","l","o">>, <<"H","e","y">> }
ContactMessages == { <<"0","1","2","3","4","5","6","7","8","9">>, <<"h","i">> }
ContactPhones == { <<"+","1","x"," ">> }
ContactMethods == { "phone" }
StatusInputs == {"new", "contacted", "closed", "archived", ""}

\* the record b with the key k set to v
With(b, k, v) == [f \in DOMAIN b \cup {k} |-> IF f = k THEN v ELSE b[f]]

RequiredBodies ==
    { [full_name |-> n, email |-> e, subject |-> s, message |-> m] :
        n \in ContactNames, e \in ContactEmails, s \in ContactSubjects,
        m \in ContactMessages }

\* the keyword arguments of a direct create_contact call
ContactData ==
    RequiredBodies
    \cup { With(b, "phone_number", ph) : b \in RequiredBodies, ph \in ContactPhones }
    \cup { With(b, "preferred_contact_method", cm) : b \in RequiredBodies, cm \in ContactMethods }

\* the bodies POSTed to the contact endpoint: any of those, with or without a
\* "status" key
ContactBodies ==
    ContactData \cup { With(b, "status", st) : b \in ContactData, st \in {"closed", "archived"} }

\* a call of ContactService.create_contact
CreateContactCall(data) ==
    /\ budget > 0
    /\ LET result == CreateContact(contacts, nextRow, data)
       IN  /\ contacts' = result.table
           /\ nextRow' = IF result.outcome = "created" THEN nextRow + 1 ELSE nextRow
           /\ lastCall' = [op |-> "create_contact",
                           id |-> IF result.outcome = "created" THEN nextRow ELSE 0,
                           arg |-> "", outcome |-> result.outcome, msg |-> result.msg]
    /\ budget' = budget - 1
    /\ UNCHANGED <<users, nextId, workers, req, probe, projects, purged>>

\* contact_list_create, POST: the serializer, then the service with the
\* validated data
PostContact(body) ==
    /\ budget > 0
    /\ LET err == ContactSerializerErrors(body)
           result == CreateContact(contacts, nextRow, ValidatedData(body))
           sent == Get(body, "status", "")
       IN  IF err # Valid
           THEN /\ lastCall' = [op |-> "post_contact", id |-> 0, arg |-> sent,
                                outcome |-> "invalid", msg |-> err]
                /\ UNCHANGED <<contacts, nextRow>>
           ELSE /\ contacts' = result.table
                /\ nextRow' = IF result.outcome = "created" THEN nextRow + 1 ELSE nextRow
                /\ lastCall' = [op |-> "post_contact",
                                id |-> IF result.outcome = "created" THEN nextRow ELSE 0,
                                arg |-> sent, outcome |-> result.outcome, msg |-> result.msg]
    /\ budget' = budget - 1
    /\ UNCHANGED <<users, nextId, workers, req, probe, projects, purged>>

\* a call of ContactService.update_contact_status
UpdateContactStatusCall(id, status) ==
    /\ budget > 0
    /\ LET result == UpdateContactStatus(contacts, id, status)
       IN  /\ contacts' = result.table
           /\ lastCall' = [op |-> "update_contact_status", id |-> id, arg |-> status,
                           outcome |-> result.outcome, msg |-> result.msg]
    /\ budget' = budget - 1
    /\ UNCHANGED <<users, nextId, workers, req, probe, projects, nextRow, purged>>

\* a call of ContactService.delete_contact -> ContactRepository.delete
DeleteContactCall(id) ==
    /\ budget > 0
    /\ contacts' = IF id \in DOMAIN contacts THEN Remove(contacts, id) ELSE contacts
    /\ lastCall' = [op |-> "delete_contact", id |-> id, arg |-> "",
                    outcome |-> IF id \in DOMAIN contacts THEN "True" ELSE "False",
                    msg |-> ""]
    /\ budget' = budget - 1
    /\ UNCHANGED <<users, nextId, workers, req, probe, projects, nextRow, purged>>

NextContact ==
    \/ \E data \in ContactData : CreateContactCall(data)
    \/ \E body \in ContactBodies : PostContact(body)
    \/ \E id \in 1..nextRow, status \in StatusInputs : UpdateContactStatusCall(id, status)
    \/ \E id \in 1..nextRow : DeleteContactCall(id)

InitContact ==
    /\ NoAccounts
    /\ NoProbe
    /\ NoRows
    /\ workers = 1
    /\ budget = MaxSeqRequests

SpecContact == InitContact /\ [][NextContact]_vars

\* C9: every stored contact's status is one of "new", "contacted", "closed";
\* update_contact_status takes exactly these three values and refuses any
\* other with a validation error, leaving the table as it was.
C9_StatusEnumerated ==
    /\ [](\A id \in DOMAIN contacts : contacts[id].status \in {"new", "contacted", "closed"})
    /\ [][ (budget' = budget - 1 /\ lastCall'.op = "update_contact_status") =>
                IF lastCall'.arg \in {"new", "contacted", "closed"}
                THEN /\ lastCall'.outcome # "ValueError"
                     /\ lastCall'.id \in DOMAIN contacts =>
                            /\ lastCall'.outcome = "updated"
                            /\ contacts'[lastCall'.id].status = lastCall'.arg
                ELSE /\ lastCall'.outcome = "ValueError"
                     /\ contacts' = contacts ]_vars

\* a status outside the three was refused for a stored contact
C9_Witness ==
    /\ lastCall.op = "update_contact_status"
    /\ lastCall.id \in DOMAIN contacts
    /\ lastCall.arg = "archived"
    /\ lastCall.outcome = "ValueError"

\* C10: every contact a submission creates is stored with status "new",
\* whatever the submitter sent.
C10_CreatedAsNew ==
    [][ \A id \in DOMAIN contacts' \ DOMAIN contacts : contacts'[id].status = "new" ]_vars

\* a POST whose body carried status "closed" and a preferred contact method
\* created a contact, stored as "new"
C10_Witness ==
    /\ lastCall.op = "post_contact"
    /\ lastCall.arg = "closed"
    /\ lastCall.outcome = "created"
    /\ contacts[lastCall.id].status = "new"

---------------------------------------------------------------------------
(* Projects: ProjectService, ProjectRepository *)

MinTitleLen == 3
MaxTitleLen == 255
MinProjectTextLen == 10
MinResultsLen == 5
MinSlugLen == 3
MaxSlugLen == 255

\* ProjectService._validate_project_input: the ValueError raised, or Valid
ValidateProjectInput(title, description, problem, process, impact, results, project_slug) ==
    IF title = <<>> \/ Len(Strip(title)) < MinTitleLen
        THEN "Title must be at least 3 characters"
    ELSE IF Len(title) > MaxTitleLen
        THEN "Title must not exceed 255 characters"
    ELSE IF description = <<>> \/ Len(Strip(description)) < MinProjectTextLen
        THEN "Description must be at least 10 characters"
    ELSE IF problem = <<>> \/ Len(Strip(problem)) < MinProjectTextLen
        THEN "Problem statement must be at least 10 characters"
    ELSE IF process = <<>> \/ Len(Strip(process)) < MinProjectTextLen
        THEN "Process description must be at least 10 characters"
    ELSE IF impact = <<>> \/ Len(Strip(impact)) < MinProjectTextLen
        THEN "Impact description must be at least 10 characters"
    ELSE IF results = <<>> \/ Len(Strip(results)) < MinResultsLen
        THEN "Results must be at least 5 characters"
    ELSE IF project_slug = <<>> \/ Len(Strip(project_slug)) < MinSlugLen
        THEN "Project slug must be at least 3 characters"
    ELSE IF Len(project_slug) > MaxSlugLen
        THEN "Project slug must not exceed 255 characters"
    ELSE Valid

\* the result of a lookup that finds nothing
NoProject == [id |-> None]

\* Project.project_slug is unique=True: may `row` be written under `id`?
SlugOk(table, id, row) ==
    {i \in DOMAIN table : table[i].project_slug = row.project_slug} \subseteq {id}

\* the row ProjectRepository.create inserts: the given fields, the model's
\* defaults for the rest, created_at from the clock
NewProjectRow(id, now, data) ==
    [id            |-> id,
     title         |-> data.title,
     description   |-> data.description,
     problem       |-> data.problem,
     process       |-> data.process,
     impact        |-> data.impact,
     results       |-> data.results,
     project_slug  |-> data.project_slug,
     display_order |-> data.display_order,
     is_published  |-> data.is_published,
     is_featured   |-> data.is_featured,
     is_deleted    |-> FALSE,
     created_at    |-> now]

\* ProjectService.create_project: validation, then the insert
CreateProject(table, id, now, data) ==
    LET err == ValidateProjectInput(data.title, data.description, data.problem,
                                    data.process, data.impact, data.results,
                                    data.project_slug)
        row == NewProjectRow(id, now, data)
    IN  IF err # Valid
            THEN [outcome |-> "ValueError", msg |-> err, table |-> table]
        ELSE IF ~SlugOk(table, id, row)
            THEN [outcome |-> "IntegrityError", msg |-> "UNIQUE constraint failed",
                  table |-> table]
        ELSE [outcome |-> "created", msg |-> "", table |-> Put(table, id, row)]

\* ProjectRepository.update: setattr for every key the model has, then save()
UpdateProject(table, id, patch) ==
    LET row == [f \in DOMAIN table[id] |->
                    IF f \in DOMAIN patch THEN patch[f] ELSE table[id][f]]
    IN  IF id \notin DOMAIN table
            THEN [outcome |-> "None", msg |-> "", table |-> table]
        ELSE IF ~SlugOk(table, id, row)
            THEN [outcome |-> "IntegrityError", msg |-> "UNIQUE constraint failed",
                  table |-> table]
        ELSE [outcome |-> "updated", msg |-> "", table |-> Put(table, id, row)]

\* soft_delete for a repository that lets DoesNotExist escape
SoftDeleteRaising(table, id) ==
    IF id \notin DOMAIN table THEN [outcome |-> "DoesNotExist", msg |-> "", table |-> table]
    ELSE [outcome |-> "True", msg |-> "",
          table |-> Put(table, id, [table[id] EXCEPT !.is_deleted = TRUE])]

\* ProjectRepository.soft_delete
SoftDelete(table, id) ==
    IF id \notin DOMAIN table THEN [outcome |-> "False", msg |-> "", table |-> table]
    ELSE [outcome |-> "True", msg |-> "",
          table |-> Put(table, id, [table[id] EXCEPT !.is_deleted = TRUE])]

\* ProjectRepository.hard_delete
HardDelete(table, id) ==
    IF id \notin DOMAIN table THEN [outcome |-> "False", msg |-> "", table |-> table]
    ELSE [outcome |-> "True", msg |-> "", table |-> Remove(table, id)]

\* order_by('display_order', '-created_at')
Before(table, a, b) ==
    \/ table[a].display_order < table[b].display_order
    \/ /\ table[a].display_order = table[b].display_order
       /\ table[a].created_at > table[b].created_at

\* the rows with the ids in S, in that order
RECURSIVE OrderBy(_, _)
OrderBy(table, S) ==
    IF S = {} THEN <<>>
    ELSE LET first == CHOOSE a \in S : \A b \in S \ {a} : Before(table, a, b)
         IN  <<table[first]>> \o OrderBy(table, S \ {first})

\* field__icontains=query
IContains(field, query) ==
    \E i \in 1..(Len(field) - Len(query) + 1) :
        Lower(SubSeq(field, i, i + Len(query) - 1)) = Lower(query)

\* ProjectRepository.get_by_id, get_by_slug
GetById(table, id) == IF id \in DOMAIN table THEN table[id] ELSE NoProject

GetBySlug(table, slug) ==
    LET ids == {i \in DOMAIN table : table[i].project_slug = slug}
    IN  IF ids = {} THEN NoProject ELSE table[CHOOSE i \in ids : TRUE]

\* ProjectRepository.get_all, get_published, get_featured, search
GetAll(table) == OrderBy(table, {i \in DOMAIN table : ~table[i].is_deleted})

GetPublished(table) ==
    OrderBy(table, {i \in DOMAIN table : ~table[i].is_deleted /\ table[i].is_published})

GetFeatured(table) ==
    OrderBy(table, {i \in DOMAIN table :
        ~table[i].is_deleted /\ table[i].is_published /\ table[i].is_featured})

SearchIncludingDeleted(table, query) ==
    OrderBy(table, {i \in DOMAIN table :
        \/ IContains(table[i].title, query)
        \/ IContains(table[i].description, query)
        \/ IContains(table[i].problem, query)})

Search(table, query) ==
    OrderBy(table, {i \in DOMAIN table :
        /\ ~table[i].is_deleted
        /\ \/ IContains(table[i].title, query)
           \/ IContains(table[i].description, query)
           \/ IContains(table[i].problem, query)})

\* seq[start:end] of Python, indices from 0
PySlice(seq, start, end) ==
    IF start >= Len(seq) THEN <<>>
    ELSE SubSeq(seq, start + 1, IF end < Len(seq) THEN end ELSE Len(seq))

\* a page whose window starts one page too late
GetPaginatedSkippingFirstPage(table, page, page_size, published_only) ==
    LET queryset == IF published_only
                    THEN {i \in DOMAIN table : ~table[i].is_deleted /\ table[i].is_published}
                    ELSE {i \in DOMAIN table : ~table[i].is_deleted}
        total_count == Cardinality(queryset)
        start_idx == page * page_size
        end_idx == start_idx + page_size
    IN  [items       |-> PySlice(OrderBy(table, queryset), start_idx, end_idx),
         total       |-> total_count,
         page        |-> page,
         page_size   |-> page_size,
         total_pages |-> (total_count + page_size - 1) \div page_size]

\* ProjectRepository.get_paginated
GetPaginated(table, page, page_size, published_only) ==
    LET queryset == IF published_only
                    THEN {i \in DOMAIN table : ~table[i].is_deleted /\ table[i].is_published}
                    ELSE {i \in DOMAIN table : ~table[i].is_deleted}
        total_count == Cardinality(queryset)
        start_idx == (page - 1) * page_size
        end_idx == start_idx + page_size
    IN  [items       |-> PySlice(OrderBy(table, queryset), start_idx, end_idx),
         total       |-> total_count,
         page        |-> page,
         page_size   |-> page_size,
         total_pages |-> (total_count + page_size - 1) \div page_size]

\* ProjectRepository.count_published, count_featured
CountPublished(table) ==
    Cardinality({i \in DOMAIN table : ~table[i].is_deleted /\ table[i].is_published})

CountFeatured(table) ==
    Cardinality({i \in DOMAIN table :
        ~table[i].is_deleted /\ table[i].is_published /\ table[i].is_featured})

\* what callers send
ApiTitle == <<"A","p","i">>
WebTitle == <<"W","e","b">>
ApiText == <<"a","p","i"," ","s","e","r","v","e","r">>
SlowText == <<"s","l","o","w"," ","p","a","g","e","s">>
FastText == <<"f","a","s","t","e","r">>
ProjectTitles == {ApiTitle, <<"A">>}
ProjectSlugs == { <<"a","p","i">>, <<"w","e","b">> }
DisplayOrders == {0, 1}

ProjectData ==
    { [title |-> t, description |-> ApiText, problem |-> SlowText, process |-> ApiText,
       impact |-> SlowText, results |-> FastText, project_slug |-> sl,
       display_order |-> d, is_published |-> pub, is_featured |-> feat] :
        t \in ProjectTitles, sl \in ProjectSlugs, d \in DisplayOrders,
        pub \in BOOLEAN, feat \in BOOLEAN }

ProjectPatches ==
    { [is_deleted |-> FALSE], [is_published |-> TRUE, is_featured |-> TRUE],
      [title |-> WebTitle], [project_slug |-> <<"a","p","i">>], [display_order |-> 1],
      [nickname |-> WebTitle] }

ProjectQueries == { <<"A","P">>, <<"w","e","b">>, <<"p","a","g","e">> }

\* a call of ProjectService.create_project
CreateProjectCall(data) ==
    /\ budget > 0
    /\ LET result == CreateProject(projects, nextRow, nextRow, data)
       IN  /\ projects' = result.table
           /\ nextRow' = IF result.outcome = "created" THEN nextRow + 1 ELSE nextRow
           /\ lastCall' = [op |-> "create_project",
                           id |-> IF result.outcome = "created" THEN nextRow ELSE 0,
                           arg |-> "", outcome |-> result.outcome, msg |-> result.msg]
    /\ budget' = budget - 1
    /\ UNCHANGED <<users, nextId, workers, req, probe, contacts, purged>>

\* a call that goes to ProjectRepository.update with the given keyword arguments
RepositoryUpdate(op, id, patch) ==
    /\ budget > 0
    /\ LET result == UpdateProject(projects, id, patch)
       IN  /\ projects' = result.table
           /\ lastCall' = [op |-> op, id |-> id, arg |-> "",
                           outcome |-> result.outcome, msg |-> result.msg]
    /\ budget' = budget - 1
    /\ UNCHANGED <<users, nextId, workers, req, probe, contacts, nextRow, purged>>

UpdateProjectCall(id, patch) == RepositoryUpdate("update_project", id, patch)
PublishProject(id) == RepositoryUpdate("publish_project", id, [is_published |-> TRUE])
UnpublishProject(id) == RepositoryUpdate("unpublish_project", id, [is_published |-> FALSE])
FeatureProject(id) == RepositoryUpdate("feature_project", id, [is_featured |-> TRUE])
UnfeatureProject(id) == RepositoryUpdate("unfeature_project", id, [is_featured |-> FALSE])

\* a call of ProjectService.soft_delete_project
SoftDeleteProject(id) ==
    /\ budget > 0
    /\ LET result == SoftDelete(projects, id)
       IN  /\ projects' = result.table
           /\ lastCall' = [op |-> "soft_delete_project", id |-> id, arg |-> "",
                           outcome |-> result.outcome, msg |-> result.msg]
    /\ budget' = budget - 1
    /\ UNCHANGED <<users, nextId, workers, req, probe, contacts, nextRow, purged>>

\* a call of ProjectService.hard_delete_project; `purged` remembers the ids
\* whose hard delete succeeded
HardDeleteProject(id) ==
    /\ budget > 0
    /\ LET result == HardDelete(projects, id)
       IN  /\ projects' = result.table
           /\ purged' = IF result.outcome = "True" THEN purged \cup {id} ELSE purged
           /\ lastCall' = [op |-> "hard_delete_project", id |-> id, arg |-> "",
                           outcome |-> result.outcome, msg |-> result.msg]
    /\ budget' = budget - 1
    /\ UNCHANGED <<users, nextId, workers, req, probe, contacts, nextRow>>

\* the pages and page sizes asked for
MaxPage == 3
MaxPageSize == 2

\* does any listing of the table return the project `id`?
InSeq(rows, id) == \E i \in 1..Len(rows) : rows[i].id = id

Listed(table, id) ==
    \/ InSeq(GetAll(table), id)
    \/ InSeq(GetPublished(table), id)
    \/ InSeq(GetFeatured(table), id)
    \/ \E query \in ProjectQueries : InSeq(Search(table, query), id)
    \/ \E page \in 1..MaxPage, page_size \in 1..MaxPageSize, published_only \in BOOLEAN :
            InSeq(GetPaginated(table, page, page_size, published_only).items, id)

\* is the project counted by the published/featured counts or a page's total?
Counted(table, id) ==
    \/ CountPublished(table) # CountPublished(Remove(table, id))
    \/ CountFeatured(table) # CountFeatured(Remove(table, id))
    \/ \E published_only \in BOOLEAN :
            GetPaginated(table, 1, 1, published_only).total
                # GetPaginated(Remove(table, id), 1, 1, published_only).total

\* C8: while a project's deleted flag is set, no listing (get_all,
\* get_published, get_featured, search, get_paginated) returns it and no count
\* includes it, whatever its published and featured flags, yet get_project(id)
\* returns it; once a hard delete of an id has succeeded, no lookup by id or by
\* slug and no listing returns that project.
C8_DeletedProjectsHidden ==
    /\ \A id \in DOMAIN projects :
            projects[id].is_deleted =>
                /\ ~Listed(projects, id)
                /\ ~Counted(projects, id)
                /\ GetById(projects, id) # NoProject
                /\ GetById(projects, id).id = id
    /\ \A id \in purged :
            /\ GetById(projects, id) = NoProject
            /\ \A slug \in ProjectSlugs : GetBySlug(projects, slug).id # id
            /\ ~Listed(projects, id)

\* a published, featured project that a search would match was soft-deleted,
\* and another project was hard-deleted
C8_Witness ==
    /\ \E id \in DOMAIN projects :
            /\ projects[id].is_deleted
            /\ projects[id].is_published
            /\ projects[id].is_featured
            /\ IContains(projects[id].title, <<"A","P">>)
    /\ purged # {}
    /\ lastCall.op \in {"soft_delete_project", "hard_delete_project"}
    /\ lastCall.outcome = "True"

---------------------------------------------------------------------------
(* Project flags *)

\* C11: every stored project whose featured flag is set also has its
\* published flag set.
C11_FeaturedArePublished ==
    \A id \in DOMAIN projects : projects[id].is_featured => projects[id].is_published

---------------------------------------------------------------------------
(* project_list_create, POST *)

\* Meta.fields of ProjectCreateSerializer, among the fields of the rows
ProjectCreateFields ==
    {"title", "description", "problem", "process", "impact", "results",
     "project_slug", "display_order", "is_published", "is_featured"}

ProjectTextFields ==
    {"title", "description", "problem", "process", "impact", "results", "project_slug"}

\* the characters a SlugField accepts
SlugChars == UpperChars \cup LowerChars \cup DigitChars \cup {"-", "_"}

\* serializer.validated_data: the declared keys of the body, text trimmed
ProjectValidatedData(body) ==
    [f \in DOMAIN body \cap ProjectCreateFields |->
        IF f \in ProjectTextFields THEN Strip(body[f]) ELSE body[f]]

\* ProjectCreateSerializer.is_valid: required fields, the slug's form and its
\* uniqueness (the validators a ModelSerializer derives from the model), and
\* the validate_<field> methods
ProjectSerializerErrors(table, body) ==
    LET data == ProjectValidatedData(body)
    IN  IF ~(ProjectTextFields \subseteq DOMAIN data)
            THEN "This field is required."
        ELSE IF \E f \in ProjectTextFields : data[f] = <<>>
            THEN "This field may not be blank."
        ELSE IF Len(data.title) > MaxTitleLen \/ Len(Strip(data.title)) < MinTitleLen
            THEN "Title must be at least 3 characters"
        ELSE IF Len(Strip(data.description)) < MinProjectTextLen
            THEN "Description must be at least 10 characters"
        ELSE IF Len(Strip(data.problem)) < MinProjectTextLen
            THEN "Problem statement must be at least 10 characters"
        ELSE IF Len(Strip(data.process)) < MinProjectTextLen
            THEN "Process description must be at least 10 characters"
        ELSE IF Len(Strip(data.impact)) < MinProjectTextLen
            THEN "Impact description must be at least 10 characters"
        ELSE IF Len(Strip(data.results)) < MinResultsLen
            THEN "Results must be at least 5 characters"
        ELSE IF ~AllIn(data.project_slug, SlugChars) \/ Len(data.project_slug) > MaxSlugLen
            THEN "Enter a valid slug"
        ELSE IF \E i \in DOMAIN table : table[i].project_slug = data.project_slug
            THEN "project with this project slug already exists."
        ELSE IF Len(Strip(data.project_slug)) < MinSlugLen
            THEN "Project slug must be at least 3 characters"
        ELSE Valid

\* the keyword arguments create_project receives, its defaults filled in
WithCreateDefaults(data) ==
    [f \in DOMAIN data \cup {"display_order", "is_published", "is_featured"} |->
        IF f \in DOMAIN data THEN data[f]
        ELSE IF f = "display_order" THEN 0 ELSE FALSE]

\* standardized_response as project_list_create builds it for each way the
\* POST ends
ProjectCreateResponse(outcome, msg) ==
    CASE outcome = "created" ->
            [status |-> 201, message |-> "Project created successfully", error |-> ""]
      [] outcome = "ValueError" ->
            [status |-> 400, message |-> "Project creation failed", error |-> msg]
      [] outcome = "invalid" ->
            [status |-> 400, message |-> "Validation failed", error |-> msg]
      [] OTHER ->
            [status |-> 500, message |-> "An error occurred while creating the project",
             error |-> msg]

\* the bodies POSTed: every field, or the required ones only
ProjectBodies ==
    ProjectData
    \cup { [f \in ProjectTextFields |-> b[f]] : b \in ProjectData }

\* project_list_create, POST: the serializer, then the service with the
\* validated data
PostProject(body) ==
    /\ budget > 0
    /\ LET err == ProjectSerializerErrors(projects, body)
           result == CreateProject(projects, nextRow, nextRow,
                                   WithCreateDefaults(ProjectValidatedData(body)))
       IN  IF err # Valid
           THEN /\ lastCall' = [op |-> "post_project", id |-> 0, arg |-> "",
                                outcome |-> "invalid", msg |-> err]
                /\ UNCHANGED <<projects, nextRow>>
           ELSE /\ projects' = result.table
                /\ nextRow' = IF result.outcome = "created" THEN nextRow + 1 ELSE nextRow
                /\ lastCall' = [op |-> "post_project",
                                id |-> IF result.outcome = "created" THEN nextRow ELSE 0,
                                arg |-> "", outcome |-> result.outcome, msg |-> result.msg]
    /\ budget' = budget - 1
    /\ UNCHANGED <<users, nextId, workers, req, probe, contacts, purged>>

NextProject ==
    \/ \E data \in ProjectData : CreateProjectCall(data)
    \/ \E body \in ProjectBodies : PostProject(body)
    \/ \E id \in 1..nextRow, patch \in ProjectPatches : UpdateProjectCall(id, patch)
    \/ \E id \in 1..nextRow : PublishProject(id)
    \/ \E id \in 1..nextRow : UnpublishProject(id)
    \/ \E id \in 1..nextRow : FeatureProject(id)
    \/ \E id \in 1..nextRow : UnfeatureProject(id)
    \/ \E id \in 1..nextRow : SoftDeleteProject(id)
    \/ \E id \in 1..nextRow : HardDeleteProject(id)

InitProject ==
    /\ NoAccounts
    /\ NoProbe
    /\ NoRows
    /\ workers = 1
    /\ budget = MaxSeqRequests

SpecProject == InitProject /\ [][NextProject]_vars

\* does a stored project, deleted or not, hold the slug?
SlugStored(table, slug) == \E i \in DOMAIN table : table[i].project_slug = slug

\* C12: create_project with valid fields and the slug of a stored project,
\* soft-deleted or not, fails with a ValueError (400 at the boundary) and
\* stores nothing; no two stored projects share a slug.
C12_DuplicateSlugIsConflict ==
    /\ [](\A i, j \in DOMAIN projects :
            projects[i].project_slug = projects[j].project_slug => i = j)
    /\ [][ \A data \in ProjectData :
            ( /\ CreateProjectCall(data)
              /\ SlugStored(projects, data.project_slug)
              /\ ValidateProjectInput(data.title, data.description, data.problem,
                                      data.process, data.impact, data.results,
                                      data.project_slug) = Valid )
            => /\ lastCall'.outcome = "ValueError"
               /\ ProjectCreateResponse(lastCall'.outcome, lastCall'.msg).status = 400
               /\ projects' = projects ]_vars

---------------------------------------------------------------------------
(* Paginated listings of the three entity kinds *)

MaxAllowedPageSize == 100

\* order_by('-date_joined') / order_by('-created_at'): rows are numbered in
\* the order they were created, so the most recent row has the largest number
RECURSIVE OrderByRecent(_)
OrderByRecent(S) ==
    IF S = {} THEN <<>>
    ELSE LET latest == CHOOSE a \in S : \A b \in S : b <= a
         IN  <<latest>> \o OrderByRecent(S \ {latest})

\* UserRepository.get_paginated (items are the rows' numbers)
UserGetPaginated(table, page, page_size) ==
    LET total_count == Cardinality(DOMAIN table)
        start_idx == (page - 1) * page_size
        end_idx == start_idx + page_size
    IN  [items       |-> PySlice(OrderByRecent(DOMAIN table), start_idx, end_idx),
         total       |-> total_count,
         page        |-> page,
         page_size   |-> page_size,
         total_pages |-> (total_count + page_size - 1) \div page_size]

\* ContactRepository.get_paginated (items are the rows' numbers)
ContactGetPaginated(table, page, page_size) ==
    LET total_count == Cardinality(DOMAIN table)
        start_idx == (page - 1) * page_size
        end_idx == start_idx + page_size
    IN  [items       |-> PySlice(OrderByRecent(DOMAIN table), start_idx, end_idx),
         total       |-> total_count,
         page        |-> page,
         page_size   |-> page_size,
         total_pages |-> (total_count + page_size - 1) \div page_size]

\* what a service's paginated listing gives back when it refuses the
\* parameters: the ValueError, raised with no repository call made
Refused(msg) == [outcome |-> "ValueError", msg |-> msg, queries |-> 0, data |-> <<>>]

\* ... and when the repository was called once and its page returned
Returned(data) == [outcome |-> "ok", msg |-> "", queries |-> 1, data |-> data]

\* UserService.get_paginated_users
GetPaginatedUsers(table, page, page_size) ==
    IF page < 1 THEN Refused("Page number must be >= 1")
    ELSE IF page_size < 1 \/ page_size > MaxAllowedPageSize
        THEN Refused("Page size must be between 1 and 100")
    ELSE Returned(UserGetPaginated(table, page, page_size))

\* a listing whose page size has no upper limit
GetPaginatedContactsNoUpperLimit(table, page, page_size) ==
    IF page < 1 THEN Refused("Page number must be >= 1")
    ELSE IF page_size < 1
        THEN Refused("Page size must be between 1 and 100")
    ELSE Returned(ContactGetPaginated(table, page, page_size))

\* ContactService.get_paginated_contacts
GetPaginatedContacts(table, page, page_size) ==
    IF page < 1 THEN Refused("Page number must be >= 1")
    ELSE IF page_size < 1 \/ page_size > MaxAllowedPageSize
        THEN Refused("Page size must be between 1 and 100")
    ELSE Returned(ContactGetPaginated(table, page, page_size))

\* ProjectService.get_paginated_projects
GetPaginatedProjects(table, page, page_size, published_only) ==
    IF page < 1 THEN Refused("Page number must be >= 1")
    ELSE IF page_size < 1 \/ page_size > MaxAllowedPageSize
        THEN Refused("Page size must be between 1 and 100")
    ELSE Returned(GetPaginated(table, page, page_size, published_only))

\* the response of list_users, contact_list_create (GET) and
\* project_list_create (GET) to the way the service call ended
ListResponse(kind, result) ==
    IF result.outcome = "ValueError"
    THEN [status |-> 400, message |-> "Error retrieving " \o kind, error |-> result.msg]
    ELSE [status |-> 200, message |-> kind \o " retrieved successfully", error |-> ""]

\* the page numbers and page sizes asked for
Pages == 0..MaxPage
PageSizes == {0, 1, MaxPageSize, MaxAllowedPageSize, MaxAllowedPageSize + 1}

\* list_users
ListUsers(page, page_size) ==
    /\ budget > 0
    /\ LET result == GetPaginatedUsers(users, page, page_size)
       IN  probe' = [arg |-> [op |-> "list_users", page |-> page, page_size |-> page_size],
                     stage |-> "checked",
                     result |-> [service |-> result,
                                 response |-> ListResponse("users", result)]]
    /\ budget' = budget - 1
    /\ UNCHANGED <<users, nextId, workers, req, contacts, projects, nextRow, purged, lastCall>>

\* contact_list_create, GET
ListContacts(page, page_size) ==
    /\ budget > 0
    /\ LET result == GetPaginatedContacts(contacts, page, page_size)
       IN  probe' = [arg |-> [op |-> "list_contacts", page |-> page, page_size |-> page_size],
                     stage |-> "checked",
                     result |-> [service |-> result,
                                 response |-> ListResponse("contacts", result)]]
    /\ budget' = budget - 1
    /\ UNCHANGED <<users, nextId, workers, req, contacts, projects, nextRow, purged, lastCall>>

\* project_list_create, GET
ListProjects(page, page_size, published_only) ==
    /\ budget > 0
    /\ LET result == GetPaginatedProjects(projects, page, page_size, published_only)
       IN  probe' = [arg |-> [op |-> "list_projects", page |-> page, page_size |-> page_size],
                     stage |-> "checked",
                     result |-> [service |-> result,
                                 response |-> ListResponse("projects", result)]]
    /\ budget' = budget - 1
    /\ UNCHANGED <<users, nextId, workers, req, contacts, projects, nextRow, purged, lastCall>>

---------------------------------------------------------------------------
(* Searches of the three entity kinds *)

MinQueryLen == 2

\* UserRepository.search (first_name and last_name are empty in every row
\* here, and an empty field contains no query)
UserSearch(table, query) ==
    OrderByRecent({i \in DOMAIN table :
        \/ IContains(table[i].username, query)
        \/ IContains(table[i].email, query)})

\* ContactRepository.search
ContactSearch(table, query) ==
    OrderByRecent({i \in DOMAIN table :
        \/ IContains(table[i].full_name, query)
        \/ IContains(table[i].email, query)
        \/ IContains(table[i].subject, query)})

\* UserService.search_users
SearchUsers(table, query) ==
    IF query = <<>> \/ Len(Strip(query)) < MinQueryLen
    THEN Refused("Search query must be at least 2 characters")
    ELSE Returned(UserSearch(table, query))

\* ContactService.search_contacts
SearchContacts(table, query) ==
    IF query = <<>> \/ Len(Strip(query)) < MinQueryLen
    THEN Refused("Search query must be at least 2 characters")
    ELSE Returned(ContactSearch(table, query))

\* a search that measures the query without trimming it
SearchProjectsUntrimmed(table, query) ==
    IF query = <<>> \/ Len(query) < MinQueryLen
    THEN Refused("Search query must be at least 2 characters")
    ELSE Returned(Search(table, query))

\* ProjectService.search_projects
SearchProjects(table, query) ==
    IF query = <<>> \/ Len(Strip(query)) < MinQueryLen
    THEN Refused("Search query must be at least 2 characters")
    ELSE Returned(Search(table, query))

\* the queries asked
SearchQueries ==
    { <<>>, <<"a">>, <<" ","a"," ">>, <<" "," "," ">>, <<"a","p">>, <<"A","P"," ">>,
      <<"z","z">>, <<"x",".","i","o">> }

\* a call of one of the three search services
SearchCall(op, query) ==
    /\ budget > 0
    /\ probe' = [arg |-> [op |-> op, query |-> query],
                 stage |-> "checked",
                 result |-> [service |->
                    CASE op = "search_users" -> SearchUsers(users, query)
                      [] op = "search_contacts" -> SearchContacts(contacts, query)
                      [] op = "search_projects" -> SearchProjects(projects, query)]]
    /\ budget' = budget - 1
    /\ UNCHANGED <<users, nextId, workers, req, contacts, projects, nextRow, purged, lastCall>>

SearchUsersCall(query) == SearchCall("search_users", query)
SearchContactsCall(query) == SearchCall("search_contacts", query)
SearchProjectsCall(query) == SearchCall("search_projects", query)

\* the records the listed tables are filled with
AppTitle == <<"A","p","p">>
ListedProjects ==
    { [title |-> t, description |-> ApiText, problem |-> SlowText, process |-> ApiText,
       impact |-> SlowText, results |-> FastText, project_slug |-> Lower(t),
       display_order |-> d, is_published |-> (t # AppTitle), is_featured |-> FALSE] :
        <<t, d>> \in {<<ApiTitle, 0>>, <<WebTitle, 1>>, <<AppTitle, 0>>} }

ListedUsers ==
    { <<RaceUsername, RaceEmail>> \in RaceUsernames \X RaceEmails :
        /\ RaceUsername[3] = "c" <=> RaceEmail[1] = "a"
        /\ RaceEmail[3] = "x" }

ListedContacts ==
    { [full_name |-> <<"A","l">>, email |-> <<"A","@","x",".","i","o">>,
       subject |-> <<"H","e","l","l","o">>,
       message |-> <<"0","1","2","3","4","5","6","7","8","9">>] }

\* the tables are filled one call at a time, then listed
NextListing ==
    \/ /\ probe = Unprobed
       /\ \/ \E data \in ListedProjects : CreateProjectCall(data)
          \/ \E id \in 1..nextRow : SoftDeleteProject(id)
          \/ \E data \in ListedContacts : CreateContactCall(data)
          \/ /\ UNCHANGED <<probe, contacts, projects, nextRow, purged, lastCall>>
             /\ \E p \in Workers :
                    \/ \E account \in ListedUsers :
                            StartCreateUser(p, account[1], account[2], Password1)
                    \/ CheckUsername(p)
                    \/ CheckEmail(p)
                    \/ Insert(p)
                    \/ Return(p)
    \/ /\ Busy = {}
       /\ \/ \E page \in Pages, page_size \in PageSizes : ListUsers(page, page_size)
          \/ \E page \in Pages, page_size \in PageSizes : ListContacts(page, page_size)
          \/ \E page \in Pages, page_size \in PageSizes, published_only \in BOOLEAN :
                ListProjects(page, page_size, published_only)
          \/ \E query \in SearchQueries : SearchUsersCall(query)
          \/ \E query \in SearchQueries : SearchContactsCall(query)
          \/ \E query \in SearchQueries : SearchProjectsCall(query)

InitListing ==
    /\ NoAccounts
    /\ NoProbe
    /\ NoRows
    /\ workers = 1
    /\ budget = MaxSeqRequests

SpecListing == InitListing /\ [][NextListing]_vars

\* the records of seq at the (0-based) positions from (p-1)*s up to, not
\* including, p*s
Window(seq, p, s) ==
    LET first == (p - 1) * s
        count == IF Len(seq) <= first THEN 0
                 ELSE IF Len(seq) < p * s THEN Len(seq) - first ELSE s
    IN  [k \in 1..count |-> seq[first + k]]

\* the elements of a table
Range(table) == {table[i] : i \in DOMAIN table}

\* do the two sequences have no element in common?
Disjoint(a, b) == \A i \in 1..Len(a), j \in 1..Len(b) : a[i] # b[j]

\* C13: for every page p >= 1 and size s >= 1, get_paginated returns exactly
\* the records at positions [(p-1)*s, p*s) of the collection in its default
\* order; pages 1 and 2 of size s are disjoint and, one after the other, equal
\* page 1 of size 2s.
C13_PageIsWindow ==
    \A p \in 1..MaxPage, s \in 1..MaxPageSize :
        /\ \A published_only \in BOOLEAN :
            LET all == IF published_only THEN GetPublished(projects) ELSE GetAll(projects)
                page1 == GetPaginated(projects, 1, s, published_only).items
                page2 == GetPaginated(projects, 2, s, published_only).items
            IN  /\ GetPaginated(projects, p, s, published_only).items = Window(all, p, s)
                /\ Disjoint(page1, page2)
                /\ page1 \o page2 = GetPaginated(projects, 1, 2 * s, published_only).items
        /\ LET all == OrderByRecent(DOMAIN users)
               page1 == UserGetPaginated(users, 1, s).items
               page2 == UserGetPaginated(users, 2, s).items
           IN  /\ UserGetPaginated(users, p, s).items = Window(all, p, s)
               /\ Disjoint(page1, page2)
               /\ page1 \o page2 = UserGetPaginated(users, 1, 2 * s).items

\* page 2 of three listed projects was asked for with size 2, and holds the
\* third one only
C13_Witness ==
    /\ probe.stage = "checked"
    /\ probe.arg.op = "list_projects"
    /\ probe.arg.page = 2
    /\ probe.arg.page_size = 2
    /\ probe.result.service.outcome = "ok"
    /\ probe.result.service.data.total = 3
    /\ Len(probe.result.service.data.items) = 1

\* C14: for each of the three entity kinds, a paginated listing with page < 1,
\* page size < 1 or page size > 100 is refused with a ValueError, answered 400,
\* with no repository query made; any other is answered from the repository.
C14_PaginationParameters ==
    (probe.stage = "checked" /\ probe.arg.op \in {"list_users", "list_contacts", "list_projects"})
    => IF probe.arg.page < 1 \/ probe.arg.page_size < 1 \/ probe.arg.page_size > 100
       THEN /\ probe.result.service.outcome = "ValueError"
            /\ probe.result.service.queries = 0
            /\ probe.result.response.status = 400
       ELSE /\ probe.result.service.outcome = "ok"
            /\ probe.result.service.queries = 1
            /\ probe.result.response.status = 200

\* a page of 101 contacts was asked for and refused
C14_Witness ==
    /\ probe.stage = "checked"
    /\ probe.arg.op = "list_contacts"
    /\ probe.arg.page = 1
    /\ probe.arg.page_size = 101
    /\ probe.result.response.status = 400
    /\ contacts # <<>>

\* C15: for each of the three entity kinds, a search whose query has fewer
\* than 2 characters once trimmed is refused with a ValueError and no
\* repository search is made; any other query is searched for and a list,
\* possibly empty, comes back.
C15_SearchQueryLength ==
    (probe.stage = "checked"
        /\ probe.arg.op \in {"search_users", "search_contacts", "search_projects"})
    => IF Len(Strip(probe.arg.query)) < 2
       THEN /\ probe.result.service.outcome = "ValueError"
            /\ probe.result.service.queries = 0
       ELSE /\ probe.result.service.outcome = "ok"
            /\ probe.result.service.queries = 1
            /\ \A i \in 1..Len(probe.result.service.data) :
                    probe.result.service.data[i] \in
                        CASE probe.arg.op = "search_users" -> DOMAIN users
                          [] probe.arg.op = "search_contacts" -> DOMAIN contacts
                          [] probe.arg.op = "search_projects" -> Range(projects)

\* a one-character query padded with spaces was refused by the project search
\* while a project it would match is stored
C15_Witness ==
    /\ probe.stage = "checked"
    /\ probe.arg.op = "search_projects"
    /\ probe.arg.query = <<" ","a"," ">>
    /\ probe.result.service.outcome = "ValueError"
    /\ \E i \in DOMAIN projects : IContains(projects[i].title, <<"a">>)

---------------------------------------------------------------------------
(* Entity ids in request paths: uuid.UUID(id) *)

UuidHexLen == 32

HexChars == DigitChars \cup {"a","b","c","d","e","f"} \cup {"A","B","C","D","E","F"}

\* does s begin with the characters of pat?
StartsWith(s, pat) == Len(s) >= Len(pat) /\ SubSeq(s, 1, Len(pat)) = pat

\* s without its first n characters
DropFirst(s, n) == SubSeq(s, n + 1, Len(s))

\* str.replace(pat, ''): every occurrence of pat removed, left to right
RECURSIVE RemoveAll(_, _)
RemoveAll(s, pat) ==
    IF s = <<>> THEN <<>>
    ELSE IF StartsWith(s, pat) THEN RemoveAll(DropFirst(s, Len(pat)), pat)
    ELSE <<Head(s)>> \o RemoveAll(Tail(s), pat)

\* str.strip(chars): leading and trailing characters of the set removed
RECURSIVE StripChars(_, _)
StripChars(s, chars) ==
    IF s # <<>> /\ Head(s) \in chars THEN StripChars(Tail(s), chars)
    ELSE IF s # <<>> /\ s[Len(s)] \in chars THEN StripChars(SubSeq(s, 1, Len(s) - 1), chars)
    ELSE s

\* int(text, 16) step by step: the literal without its sign,
Unsigned(t) == IF t # <<>> /\ Head(t) \in {"+", "-"} THEN Tail(t) ELSE t

\* does it carry the 0x prefix,
Prefixed(u) == StartsWith(u, <<"0","x">>) \/ StartsWith(u, <<"0","X">>)

\* without the prefix and the one underscore that may follow it,
Unprefixed(u) ==
    IF ~Prefixed(u) THEN u
    ELSE IF Len(u) > 2 /\ u[3] = "_" THEN DropFirst(u, 3)
    ELSE DropFirst(u, 2)

\* and the form of what is left: digits, with single underscores between them
DigitGroups(g) ==
    /\ g # <<>>
    /\ AllIn(g, HexChars \cup {"_"})
    /\ g[1] # "_"
    /\ g[Len(g)] # "_"
    /\ \A i \in 1..(Len(g) - 1) : ~(g[i] = "_" /\ g[i + 1] = "_")

\* the digits of the literal int(text, 16) reads, or <<>> when it raises
\* ValueError: surrounding whitespace, a sign and a 0x prefix are accepted, and
\* single underscores between digits (or right after the prefix)
DigitsOf(g) == IF DigitGroups(g) THEN Lower(Drop(g, {"_"})) ELSE <<>>

HexLiteralDigits(text) == DigitsOf(Unprefixed(Unsigned(Strip(text))))

\* the text UUID() hands to int(): prefixes, braces and hyphens removed
BareHex(id_string) ==
    Drop(StripChars(RemoveAll(RemoveAll(id_string, <<"u","r","n",":">>),
                              <<"u","u","i","d",":">>), {"{", "}"}), {"-"})

\* digits padded with zeros on the left to the length of an identifier
ZeroPadded(digits) == [i \in 1..(UuidHexLen - Len(digits)) |-> "0"] \o digits

\* the identifier made of the digits read, or ValueError when there are none
Parsed(hex, digits) ==
    IF Len(hex) # UuidHexLen \/ digits = <<>>
    THEN [ok |-> FALSE, hex |-> <<>>]
    ELSE [ok |-> TRUE, hex |-> ZeroPadded(digits)]

\* uuid.UUID(hex): the 32 hexadecimal digits of the identifier, or ValueError
ParseUUID(id_string) == Parsed(BareHex(id_string), HexLiteralDigits(BareHex(id_string)))

\* the decimal digits by value
DigitTable == [n \in 0..9 |-> <<"0","1","2","3","4","5","6","7","8","9">>[n + 1]]

\* the identifier of the row numbered n (n below 10), and the row an
\* identifier names (None when it names no row of the table)
UuidOf(n) == [i \in 1..UuidHexLen |-> IF i < UuidHexLen THEN "0" ELSE DigitTable[n]]

RowOf(table, hex) ==
    IF \E n \in DOMAIN table : UuidOf(n) = hex
    THEN CHOOSE n \in DOMAIN table : UuidOf(n) = hex
    ELSE None

\* the canonical text of an identifier: 8-4-4-4-12 digits
Hyphenated(hex) ==
    SubSeq(hex, 1, 8) \o <<"-">> \o SubSeq(hex, 9, 12) \o <<"-">> \o SubSeq(hex, 13, 16)
        \o <<"-">> \o SubSeq(hex, 17, 20) \o <<"-">> \o SubSeq(hex, 21, 32)

\* the id strings requests carry in their paths
IdStrings ==
    { Hyphenated(UuidOf(1)),
      Hyphenated(UuidOf(9)),
      <<"a","b","c">>,
      <<"0","x">> \o SubSeq(UuidOf(1), 3, 32) }

---------------------------------------------------------------------------
(* The endpoints that take an entity id in their path *)

IdEndpoints ==
    {"user_detail", "change_password", "activate_user", "deactivate_user",
     "contact_detail",
     "project_detail", "publish_project", "unpublish_project",
     "feature_project", "unfeature_project"}

HttpMethods == {"GET", "POST", "PUT", "PATCH", "DELETE", "OPTIONS"}

\* the methods each view's @api_view decorator lists
AllowedMethods(endpoint) ==
    CASE endpoint = "user_detail" -> {"GET", "POST", "PUT", "PATCH", "DELETE"}
      [] endpoint \in {"contact_detail", "project_detail"} -> {"GET", "PUT", "PATCH", "DELETE"}
      [] OTHER -> {"POST"}

\* what a view hands back: the response, the repository calls that read and
\* that wrote, and the table afterwards
Out(status, message, error, reads, writes, table) ==
    [response |-> [status |-> status, message |-> message, error |-> error],
     reads |-> reads, writes |-> writes, table |-> table]

\* the 400 every view answers when UUID(id) raised ValueError
InvalidId(kind, table) ==
    Out(400, CASE kind = "user" -> "Invalid user ID format"
               [] kind = "contact" -> "Invalid contact ID format"
               [] OTHER -> "Invalid project ID format",
        "Invalid UUID format", 0, 0, table)

\* the 404 of a view whose row is missing
NotFound(kind, reads, table) ==
    LET text == CASE kind = "user" -> "User not found"
                  [] kind = "contact" -> "Contact not found"
                  [] OTHER -> "Project not found"
    IN  Out(404, text, text, reads, 0, table)

\* UserUpdateSerializer.is_valid (fields email, first_name, last_name): every
\* field is required unless partial; the e-mail is an address and no stored one
UserUpdateErrors(table, body, partial) ==
    IF ~partial /\ ~({"email", "first_name", "last_name"} \subseteq DOMAIN body)
        THEN "This field is required."
    ELSE IF "email" \notin DOMAIN body THEN Valid
    ELSE IF ~IsValidEmail(Strip(body.email)) THEN "Enter a valid email address."
    ELSE IF IdsByEmail(table, Strip(body.email)) # {}
        THEN "user with this email already exists."
    ELSE Valid

\* serializer.validated_data of UserUpdateSerializer
UserUpdateData(body) ==
    [f \in DOMAIN body \cap {"email", "first_name", "last_name"} |-> Strip(body[f])]

\* user_detail after the id was parsed
UserDetail(table, method, id, body) ==
    CASE method = "GET" ->
            IF id \notin DOMAIN table THEN NotFound("user", 1, table)
            ELSE Out(200, "User retrieved successfully", "", 1, 0, table)
      [] method \in {"PUT", "PATCH"} ->
            LET err == UserUpdateErrors(table, body, method = "PATCH")
                row == ApplyPatch(table[id], UserUpdateData(body))
            IN  IF id \notin DOMAIN table THEN NotFound("user", 1, table)
                ELSE IF err # Valid THEN Out(400, "Validation failed", err, 1, 0, table)
                ELSE IF ~UniqueOk(table, id, row)
                    THEN Out(500, "An error occurred while updating the user",
                             "UNIQUE constraint failed", 2, 0, table)
                ELSE Out(200, "User updated successfully", "", 2, 1, Put(table, id, row))
      [] method = "DELETE" ->
            IF id \notin DOMAIN table THEN NotFound("user", 1, table)
            ELSE Out(204, "User deleted successfully", "", 1, 1, Remove(table, id))
      [] OTHER ->
            \* POST has no branch: the view returns None and the framework
            \* refuses it
            Out(500, "", "AssertionError", 0, 0, table)

\* ChangePasswordSerializer.is_valid
ChangePasswordErrors(body) ==
    IF ~({"old_password", "new_password", "new_password_confirm"} \subseteq DOMAIN body)
        THEN "This field is required."
    ELSE IF Len(body.new_password) < MinPasswordLen
            \/ Len(body.new_password_confirm) < MinPasswordLen
        THEN "Ensure this field has at least 8 characters."
    ELSE IF body.new_password # body.new_password_confirm THEN "Passwords do not match"
    ELSE Valid

\* change_password after the id was parsed
ChangePasswordView(table, id, body) ==
    LET err == ChangePasswordErrors(body)
        result == ChangePassword(table, id, body.old_password, body.new_password)
    IN  IF err # Valid THEN Out(400, "Validation failed", err, 0, 0, table)
        ELSE IF result.outcome = "True"
            THEN Out(200, "Password changed successfully", "", 2, 1, result.table)
        ELSE IF result.outcome = "ValueError"
            THEN Out(400, "Password change failed", result.msg, 2, 0, table)
        ELSE Out(400, "Password change failed", "Invalid old password or user not found",
                 IF id \in DOMAIN table THEN 2 ELSE 1, 0, table)

\* activate_user_view / deactivate_user_view after the id was parsed
SetActiveView(table, id, flag) ==
    LET result == SetActive(table, id, flag)
    IN  IF ~result.ok THEN NotFound("user", 1, table)
        ELSE Out(200, IF flag THEN "User activated successfully"
                      ELSE "User deactivated successfully", "", 2, 1, result.table)

\* contact_detail after the id was parsed.  ContactUpdateSerializer has the
\* one field status, a choice that is never required (the model gives it a
\* default), and the view reads validated_data['status']
ContactDetail(table, method, id, body) ==
    CASE method = "GET" ->
            IF id \notin DOMAIN table THEN NotFound("contact", 1, table)
            ELSE Out(200, "Contact retrieved successfully", "", 1, 0, table)
      [] method \in {"PUT", "PATCH"} ->
            LET result == UpdateContactStatus(table, id, body.status)
            IN  IF id \notin DOMAIN table THEN NotFound("contact", 1, table)
                ELSE IF "status" \in DOMAIN body /\ body.status \notin ValidStatuses
                    THEN Out(400, "Validation failed", "is not a valid choice.", 1, 0, table)
                ELSE IF "status" \notin DOMAIN body
                    THEN Out(500, "An error occurred while updating the contact",
                             "'status'", 1, 0, table)
                ELSE Out(200, "Contact updated successfully", "", 2, 1, result.table)
      [] OTHER ->
            IF id \notin DOMAIN table THEN NotFound("contact", 1, table)
            ELSE Out(204, "Contact deleted successfully", "", 1, 1, Remove(table, id))

\* Meta.fields of ProjectUpdateSerializer, among the fields of the rows
ProjectUpdateFields == ProjectCreateFields

\* ProjectUpdateSerializer.is_valid: the validators a ModelSerializer derives
\* from the model (no validate_<field> methods here); every text field is
\* required unless partial
ProjectUpdateErrors(table, body, partial) ==
    LET data == ProjectValidatedData(body)
    IN  IF ~partial /\ ~(ProjectTextFields \subseteq DOMAIN data)
            THEN "This field is required."
        ELSE IF \E f \in ProjectTextFields \cap DOMAIN data : data[f] = <<>>
            THEN "This field may not be blank."
        ELSE IF "title" \in DOMAIN data /\ Len(data.title) > MaxTitleLen
            THEN "Ensure this field has no more than 255 characters."
        ELSE IF "project_slug" \in DOMAIN data
                /\ (~AllIn(data.project_slug, SlugChars) \/ Len(data.project_slug) > MaxSlugLen)
            THEN "Enter a valid slug"
        ELSE IF "project_slug" \in DOMAIN data
                /\ \E i \in DOMAIN table : table[i].project_slug = data.project_slug
            THEN "project with this project slug already exists."
        ELSE Valid

\* project_detail after the id was parsed
ProjectDetail(table, method, id, body) ==
    CASE method = "GET" ->
            IF id \notin DOMAIN table THEN NotFound("project", 1, table)
            ELSE Out(200, "Project retrieved successfully", "", 1, 0, table)
      [] method \in {"PUT", "PATCH"} ->
            LET err == ProjectUpdateErrors(table, body, method = "PATCH")
                result == UpdateProject(table, id, ProjectValidatedData(body))
            IN  IF id \notin DOMAIN table THEN NotFound("project", 1, table)
                ELSE IF err # Valid THEN Out(400, "Validation failed", err, 1, 0, table)
                ELSE IF result.outcome = "updated"
                    THEN Out(200, "Project updated successfully", "", 2, 1, result.table)
                ELSE Out(500, "An error occurred while updating the project",
                         result.msg, 2, 0, table)
      [] OTHER ->
            LET result == SoftDelete(table, id)
            IN  IF result.outcome = "True"
                THEN Out(204, "Project deleted successfully", "", 1, 1, result.table)
                ELSE NotFound("project", 1, table)

\* publish_project_view and its three siblings after the id was parsed
ProjectFlagView(table, id, patch, done) ==
    LET result == UpdateProject(table, id, patch)
    IN  IF result.outcome = "updated" THEN Out(200, done, "", 1, 1, result.table)
        ELSE NotFound("project", 1, table)

\* the entity kind an endpoint serves
KindOf(endpoint) ==
    CASE endpoint \in {"user_detail", "change_password", "activate_user", "deactivate_user"}
            -> "user"
      [] endpoint = "contact_detail" -> "contact"
      [] OTHER -> "project"

\* UUID(id) for each of the id strings
ParsedIds == [id_string \in IdStrings |-> ParseUUID(id_string)]

\* one request to an id endpoint, from the framework's method check to the
\* response: `table` is the table of the endpoint's entity kind
IdView(endpoint, method, id_string, body, table) ==
    LET parsed == ParsedIds[id_string]
        id == RowOf(table, parsed.hex)
    IN  IF method \notin AllowedMethods(endpoint)
            THEN IF method = "OPTIONS" THEN Out(200, "", "", 0, 0, table)
                 ELSE Out(405, "", "Method not allowed", 0, 0, table)
        ELSE IF ~parsed.ok THEN InvalidId(KindOf(endpoint), table)
        ELSE CASE endpoint = "user_detail" -> UserDetail(table, method, id, body)
               [] endpoint = "change_password" -> ChangePasswordView(table, id, body)
               [] endpoint = "activate_user" -> SetActiveView(table, id, TRUE)
               [] endpoint = "deactivate_user" -> SetActiveView(table, id, FALSE)
               [] endpoint = "contact_detail" -> ContactDetail(table, method, id, body)
               [] endpoint = "project_detail" -> ProjectDetail(table, method, id, body)
               [] endpoint = "publish_project" ->
                    ProjectFlagView(table, id, [is_published |-> TRUE],
                                    "Project published successfully")
               [] endpoint = "unpublish_project" ->
                    ProjectFlagView(table, id, [is_published |-> FALSE],
                                    "Project unpublished successfully")
               [] endpoint = "feature_project" ->
                    ProjectFlagView(table, id, [is_featured |-> TRUE],
                                    "Project featured successfully")
               [] OTHER ->
                    ProjectFlagView(table, id, [is_featured |-> FALSE],
                                    "Project unfeatured successfully")

\* the bodies the requests carry
NoBody == [f \in {} |-> <<>>]

IdBodies(endpoint) ==
    CASE endpoint = "user_detail" ->
            {NoBody, [email |-> <<"a","x">>],
             [email |-> <<"b","@","x",".","i","o">>, first_name |-> <<"B">>,
              last_name |-> <<"C">>]}
      [] endpoint = "change_password" ->
            {NoBody,
             [old_password |-> Password1, new_password |-> Password2,
              new_password_confirm |-> Password2],
             [old_password |-> Password2, new_password |-> WeakPassword,
              new_password_confirm |-> WeakPassword]}
      [] endpoint = "contact_detail" ->
            {NoBody, [status |-> "contacted"], [status |-> "archived"]}
      [] endpoint = "project_detail" ->
            {NoBody, [title |-> WebTitle], [project_slug |-> <<"a","p","i">>]}
      [] OTHER -> {NoBody}

\* a request to an id endpoint is answered
IdRequest(endpoint, method, id_string, body) ==
    /\ budget > 0
    /\ LET kind == KindOf(endpoint)
           table == CASE kind = "user" -> users
                      [] kind = "contact" -> contacts
                      [] OTHER -> projects
           result == IdView(endpoint, method, id_string, body, table)
       IN  /\ probe' = [arg |-> [endpoint |-> endpoint, method |-> method,
                                 id |-> id_string, body |-> body],
                        stage |-> "checked",
                        result |-> [response |-> result.response,
                                    reads |-> result.reads, writes |-> result.writes]]
           /\ users' = IF kind = "user" THEN result.table ELSE users
           /\ contacts' = IF kind = "contact" THEN result.table ELSE contacts
           /\ projects' = IF kind = "project" THEN result.table ELSE projects
    /\ budget' = budget - 1
    /\ UNCHANGED <<nextId, workers, req, nextRow, lastCall, purged>>

MaxRouteRequests == 3   \* requests taken in one run against the id endpoints

\* the rows the id endpoints are tried on
RoutedUser == <<"a","b","c">>
RoutedEmail == <<"a","@","x",".","i","o">>
RoutedContacts == { c \in ContactData : ValidateContactInput(c.full_name, c.email,
                                                            c.subject, c.message) = Valid }
RoutedProjects == { d \in ListedProjects : d.title = ApiTitle /\ d.display_order = 0 }

NextRoutes ==
    \/ /\ probe = Unprobed
       /\ \/ \E data \in RoutedProjects : CreateProjectCall(data)
          \/ \E data \in RoutedContacts : CreateContactCall(data)
          \/ /\ UNCHANGED <<probe, contacts, projects, nextRow, purged, lastCall>>
             /\ \E p \in Workers :
                    \/ StartCreateUser(p, RoutedUser, RoutedEmail, Password1)
                    \/ CheckUsername(p)
                    \/ CheckEmail(p)
                    \/ Insert(p)
                    \/ Return(p)
    \/ /\ Busy = {}
       /\ \E endpoint \in IdEndpoints, method \in HttpMethods, id_string \in IdStrings :
            \E body \in IdBodies(endpoint) : IdRequest(endpoint, method, id_string, body)

InitRoutes ==
    /\ NoAccounts
    /\ NoProbe
    /\ NoRows
    /\ workers = 1
    /\ budget = MaxRouteRequests

SpecRoutes == InitRoutes /\ [][NextRoutes]_vars

\* an id in the textual forms of a 128-bit identifier: 32 hexadecimal digits,
\* hyphens, enclosing braces and the urn:uuid: prefix aside
WellFormedId(id_string) ==
    Len(BareHex(id_string)) = UuidHexLen /\ AllIn(BareHex(id_string), HexChars)

\* C16: on every id endpoint and for every HTTP method, an id string that is
\* not a valid 128-bit identifier is answered with 400, and the request reads
\* and writes nothing in the store.
C16_MalformedIdRejected ==
    (probe.stage = "checked" /\ ~WellFormedId(probe.arg.id))
        => /\ probe.result.response.status = 400
           /\ probe.result.reads = 0
           /\ probe.result.writes = 0

---------------------------------------------------------------------------
(* Claim C17: what a 500 tells the caller *)

\* C17: a request that ends in an unexpected fault is answered 500 with a
\* generic message only: nothing of the exception (its text, the names of
\* tables and constraints) is in the body.
C17_FaultBodyIsGeneric ==
    \A p \in Workers :
        (req[p].pc = "done" /\ req[p].via = "view" /\ req[p].outcome = "IntegrityError")
            => /\ req[p].response.status = 500
               /\ req[p].response.error = ""

---------------------------------------------------------------------------
(* Calls by id on the repositories and services of the three entity kinds *)

\* what a call by id ends with: what it returned or raised, and the table
Ended(outcome, msg, table) == [outcome |-> outcome, msg |-> msg, table |-> table]

\* get_by_id of the three repositories: the row, or None for DoesNotExist
RepositoryGet(table, id) ==
    Ended(IF id \in DOMAIN table THEN "found" ELSE "None", "", table)

\* UserRepository.update in one piece
UserUpdate(table, id, patch) ==
    LET row == ApplyPatch(table[id], patch)
    IN  IF id \notin DOMAIN table THEN Ended("None", "", table)
        ELSE IF DOMAIN patch \cap ReadOnlyAttributes # {}
            THEN Ended("AttributeError", "can't set attribute", table)
        ELSE IF ~UniqueOk(table, SavedId(id, patch), row)
            THEN Ended("IntegrityError", IntegrityErrorText(table, SavedId(id, patch), row),
                       table)
        ELSE Ended("updated", "", Put(table, SavedId(id, patch), row))

\* UserRepository.delete, ContactRepository.delete
RepositoryDelete(table, id) ==
    IF id \in DOMAIN table THEN Ended("True", "", Remove(table, id))
    ELSE Ended("False", "", table)

\* True / False as the repositories' bool results are named in a call's outcome
Bool(ok) == IF ok THEN "True" ELSE "False"

\* UserService.reset_password: _validate_password, then set_password
ResetPassword(table, id, new_password) ==
    IF ValidatePassword(new_password) # Valid
    THEN Ended("ValueError", ValidatePassword(new_password), table)
    ELSE Ended(Bool(SetPassword(table, id, new_password).ok), "",
               SetPassword(table, id, new_password).table)

\* ContactRepository.update(contact_id, status=...)
ContactUpdate(table, id, status) ==
    IF id \notin DOMAIN table THEN Ended("None", "", table)
    ELSE Ended("updated", "", Put(table, id, [table[id] EXCEPT !.status = status]))

\* the operations that take an id, by entity kind
UserOps ==
    {"UserRepository.get_by_id", "UserRepository.update", "UserRepository.set_password",
     "UserRepository.activate", "UserRepository.deactivate", "UserRepository.delete",
     "UserService.get_user", "UserService.update_user", "UserService.reset_password",
     "UserService.change_password", "UserService.activate_user",
     "UserService.deactivate_user", "UserService.delete_user"}

ContactOps ==
    {"ContactRepository.get_by_id", "ContactRepository.update", "ContactRepository.delete",
     "ContactService.get_contact", "ContactService.update_contact_status",
     "ContactService.delete_contact"}

ProjectOps ==
    {"ProjectRepository.get_by_id", "ProjectRepository.update",
     "ProjectRepository.soft_delete", "ProjectRepository.hard_delete",
     "ProjectService.get_project", "ProjectService.update_project",
     "ProjectService.publish_project", "ProjectService.unpublish_project",
     "ProjectService.feature_project", "ProjectService.unfeature_project",
     "ProjectService.soft_delete_project", "ProjectService.hard_delete_project"}

\* the arguments a call carries besides the id
OpArgs(op) ==
    CASE op \in {"UserRepository.update", "UserService.update_user"} ->
            {[email |-> <<"b","@","x",".","i","o">>], [is_active |-> FALSE]}
      [] op \in {"UserRepository.set_password", "UserService.reset_password"} ->
            {[password |-> Password2], [password |-> WeakPassword]}
      [] op = "UserService.change_password" ->
            {[old_password |-> Password1, new_password |-> Password2],
             [old_password |-> Password1, new_password |-> WeakPassword]}
      [] op \in {"ContactRepository.update", "ContactService.update_contact_status"} ->
            {[status |-> "contacted"], [status |-> "archived"]}
      [] op \in {"ProjectRepository.update", "ProjectService.update_project"} ->
            {[is_published |-> TRUE], [project_slug |-> <<"a","p","i">>]}
      [] OTHER -> {NoBody}

\* a call on the account repository or service
UserOp(op, table, id, arg) ==
    CASE op \in {"UserRepository.get_by_id", "UserService.get_user"} ->
            RepositoryGet(table, id)
      [] op \in {"UserRepository.update", "UserService.update_user"} ->
            UserUpdate(table, id, arg)
      [] op = "UserRepository.set_password" ->
            Ended(Bool(SetPassword(table, id, arg.password).ok), "",
                  SetPassword(table, id, arg.password).table)
      [] op = "UserService.reset_password" -> ResetPassword(table, id, arg.password)
      [] op = "UserService.change_password" ->
            ChangePassword(table, id, arg.old_password, arg.new_password)
      [] op \in {"UserRepository.activate", "UserService.activate_user"} ->
            Ended(Bool(SetActive(table, id, TRUE).ok), "", SetActive(table, id, TRUE).table)
      [] op \in {"UserRepository.deactivate", "UserService.deactivate_user"} ->
            Ended(Bool(SetActive(table, id, FALSE).ok), "", SetActive(table, id, FALSE).table)
      [] OTHER -> RepositoryDelete(table, id)

\* a call on the contact repository or service
ContactOp(op, table, id, arg) ==
    CASE op \in {"ContactRepository.get_by_id", "ContactService.get_contact"} ->
            RepositoryGet(table, id)
      [] op = "ContactRepository.update" -> ContactUpdate(table, id, arg.status)
      [] op = "ContactService.update_contact_status" ->
            UpdateContactStatus(table, id, arg.status)
      [] OTHER -> RepositoryDelete(table, id)

\* a call on the project repository or service
ProjectOp(op, table, id, arg) ==
    CASE op \in {"ProjectRepository.get_by_id", "ProjectService.get_project"} ->
            RepositoryGet(table, id)
      [] op \in {"ProjectRepository.update", "ProjectService.update_project"} ->
            UpdateProject(table, id, arg)
      [] op = "ProjectService.publish_project" ->
            UpdateProject(table, id, [is_published |-> TRUE])
      [] op = "ProjectService.unpublish_project" ->
            UpdateProject(table, id, [is_published |-> FALSE])
      [] op = "ProjectService.feature_project" ->
            UpdateProject(table, id, [is_featured |-> TRUE])
      [] op = "ProjectService.unfeature_project" ->
            UpdateProject(table, id, [is_featured |-> FALSE])
      [] op \in {"ProjectRepository.soft_delete", "ProjectService.soft_delete_project"} ->
            SoftDelete(table, id)
      [] OTHER -> HardDelete(table, id)

\* the call is made and answered; probe keeps what was asked, what came back
\* and whether the id was stored when the call was made
UserCall(op, id, arg) ==
    /\ budget > 0
    /\ LET result == UserOp(op, users, id, arg)
       IN  /\ users' = result.table
           /\ probe' = [arg |-> [op |-> op, id |-> id, arg |-> arg,
                                 stored |-> id \in DOMAIN users],
                        stage |-> "checked",
                        result |-> [outcome |-> result.outcome, msg |-> result.msg,
                                    changed |-> result.table # users]]
    /\ budget' = budget - 1
    /\ UNCHANGED <<nextId, workers, req, contacts, projects, nextRow, purged, lastCall>>

ContactCall(op, id, arg) ==
    /\ budget > 0
    /\ LET result == ContactOp(op, contacts, id, arg)
       IN  /\ contacts' = result.table
           /\ probe' = [arg |-> [op |-> op, id |-> id, arg |-> arg,
                                 stored |-> id \in DOMAIN contacts],
                        stage |-> "checked",
                        result |-> [outcome |-> result.outcome, msg |-> result.msg,
                                    changed |-> result.table # contacts]]
    /\ budget' = budget - 1
    /\ UNCHANGED <<users, nextId, workers, req, projects, nextRow, purged, lastCall>>

ProjectCall(op, id, arg) ==
    /\ budget > 0
    /\ LET result == ProjectOp(op, projects, id, arg)
       IN  /\ projects' = result.table
           /\ probe' = [arg |-> [op |-> op, id |-> id, arg |-> arg,
                                 stored |-> id \in DOMAIN projects],
                        stage |-> "checked",
                        result |-> [outcome |-> result.outcome, msg |-> result.msg,
                                    changed |-> result.table # projects]]
    /\ budget' = budget - 1
    /\ UNCHANGED <<users, nextId, workers, req, contacts, nextRow, purged, lastCall>>

NextStore ==
    \/ /\ probe = Unprobed
       /\ \/ \E data \in RoutedProjects : CreateProjectCall(data)
          \/ \E data \in RoutedContacts : CreateContactCall(data)
          \/ /\ UNCHANGED <<probe, contacts, projects, nextRow, purged, lastCall>>
             /\ \E p \in Workers :
                    \/ StartCreateUser(p, RoutedUser, RoutedEmail, Password1)
                    \/ CheckUsername(p)
                    \/ CheckEmail(p)
                    \/ Insert(p)
                    \/ Return(p)
    \/ /\ Busy = {}
       /\ \/ \E op \in UserOps, id \in 1..nextId :
                \E arg \in OpArgs(op) : UserCall(op, id, arg)
          \/ \E op \in ContactOps, id \in 1..nextRow :
                \E arg \in OpArgs(op) : ContactCall(op, id, arg)
          \/ \E op \in ProjectOps, id \in 1..nextRow :
                \E arg \in OpArgs(op) : ProjectCall(op, id, arg)

InitStore ==
    /\ NoAccounts
    /\ NoProbe
    /\ NoRows
    /\ workers = 1
    /\ budget = MaxSeqRequests

SpecStore == InitStore /\ [][NextStore]_vars

\* do the call's other arguments pass the validation the operation does
\* before it looks the id up?
ArgumentsValid(op, arg) ==
    CASE op \in {"UserService.reset_password"} -> ValidatePassword(arg.password) = Valid
      [] op = "ContactService.update_contact_status" -> arg.status \in ValidStatuses
      [] OTHER -> TRUE

\* C18 as stated: every call by an id that is not stored returns None or
\* False, raises nothing and leaves the store as it was.
C18_AbsentIdAnyArguments ==
    (probe.stage = "checked" /\ ~probe.arg.stored)
        => /\ probe.result.outcome \in {"None", "False"}
           /\ ~probe.result.changed

\* C18: a call by an id that is not stored, with arguments that pass the
\* operation's own validation, returns None or False, raises nothing and leaves
\* the store as it was; and the tables of the other kinds never change with it.
C18_AbsentIdIsNormalResult ==
    /\ [](( /\ probe.stage = "checked"
            /\ ~probe.arg.stored
            /\ ArgumentsValid(probe.arg.op, probe.arg.arg) )
          => /\ probe.result.outcome \in {"None", "False"}
             /\ ~probe.result.changed)
    /\ [][ ( /\ budget' < budget
              /\ probe'.stage = "checked"
              /\ ~probe'.arg.stored
              /\ ArgumentsValid(probe'.arg.op, probe'.arg.arg) )
            => /\ users' = users
               /\ contacts' = contacts
               /\ projects' = projects ]_vars

\* a soft delete by an id that is not stored has been answered False while
\* projects and accounts are stored
C18_Witness ==
    /\ probe.stage = "checked"
    /\ ~probe.arg.stored
    /\ probe.arg.op = "ProjectService.soft_delete_project"
    /\ probe.result.outcome = "False"
    /\ projects # <<>>
    /\ users # <<>>

---------------------------------------------------------------------------
(* Claim C19: the state of a project right after its creation *)

\* C19: whatever the create request carries, the project it creates is stored
\* unpublished; only a later publish or edit publishes it.
C19_CreatedAsDraft ==
    [][ (nextRow' = nextRow + 1 /\ lastCall'.op \in {"create_project", "post_project"})
            => /\ lastCall'.id \in DOMAIN projects' \ DOMAIN projects
               /\ ~projects'[lastCall'.id].is_published ]_vars

---------------------------------------------------------------------------
(* Contact submissions with whitespace and control characters *)

MaxIntakeRequests == 2   \* submissions taken in one run of the intake

\* submitted values: plain, padded with whitespace, and with the control
\* character ^A (code point 1) before, inside or after the text
IntakeNames == { <<"A","l">>, <<" ","A","l","\n">>, <<"^A"," ","A","l">>, <<"A","^A","l">>,
                 <<"A","^A">> }
IntakeEmails == { <<"A","@","X",".","i","o">>, <<" ","a","@","x",".","i","o">> }
IntakeSubjects == { <<"H","e","l","l","o">>, <<"H","e","l","l","o"," ","^A">> }
IntakeMessages == { <<"0","1","2","3","4","\t","5","6","7","8","9">> }
IntakePhones == { <<" ","a","(","1",")"," ","2","-","3","x"," ">>, <<"+","1","^A">> }
IntakeOrganizations == { <<" ","^A","O","r","g","\f">> }

IntakeRequired ==
    { [full_name |-> n, email |-> e, subject |-> s, message |-> m] :
        n \in IntakeNames, e \in IntakeEmails, s \in IntakeSubjects, m \in IntakeMessages }

IntakeData ==
    IntakeRequired
    \cup { With(b, "phone_number", ph) : b \in IntakeRequired, ph \in IntakePhones }
    \cup { With(b, "organization", org) : b \in IntakeRequired, org \in IntakeOrganizations }

NextIntake ==
    \/ \E data \in IntakeData : CreateContactCall(data)
    \/ \E body \in IntakeData : PostContact(body)

InitIntake ==
    /\ NoAccounts
    /\ NoProbe
    /\ NoRows
    /\ workers = 1
    /\ budget = MaxIntakeRequests

SpecIntake == InitIntake /\ [][NextIntake]_vars

\* the characters a stored phone number may hold
PhoneChars == DigitChars \cup {"+", "-", "(", ")", " "}

\* text without whitespace at either end and without a character below 32
\* other than newline, carriage return and tab
CleanText(text) ==
    /\ text # <<>> => (text[1] \notin Whitespace /\ text[Len(text)] \notin Whitespace)
    /\ \A i \in 1..Len(text) : text[i] \in ControlChars => text[i] \in {"\n", "\r", "\t"}

\* C20: every stored contact has clean free-text fields (full name, subject,
\* message, organization), a trimmed lower-case e-mail address and a phone
\* number of digits, + - ( ) and spaces only.
C20_StoredContactSanitized ==
    \A id \in DOMAIN contacts :
        /\ CleanText(contacts[id].full_name)
        /\ CleanText(contacts[id].subject)
        /\ CleanText(contacts[id].message)
        /\ CleanText(contacts[id].organization)
        /\ contacts[id].email = Lower(Strip(contacts[id].email))
        /\ AllIn(contacts[id].phone_number, PhoneChars)

---------------------------------------------------------------------------
(* Contact.get_user_agent: the stored user-agent string read as JSON *)

\* the whitespace json.loads skips between tokens
JsonWhitespace == {" ", "\t", "\n", "\r"}

RECURSIVE SkipWs(_)
SkipWs(s) == IF s # <<>> /\ Head(s) \in JsonWhitespace THEN SkipWs(Tail(s)) ELSE s

\* decoded values: a kind, the text of a scalar, the members of a structure
\* (by key for an object, by position for a list)
JsonValue(kind, text, members) == [kind |-> kind, text |-> text, members |-> members]
NoMembers == [k \in {} |-> <<>>]
EmptyObject == JsonValue("object", <<>>, NoMembers)

\* what a decoding step gives: the value and the text left, or a decode error
Decoded(value, rest) == [ok |-> TRUE, value |-> value, rest |-> rest]
DecodeError == [ok |-> FALSE, value |-> EmptyObject, rest |-> <<>>]

\* the position of the first double quote of s, 0 when it has none
QuoteAt(s) ==
    IF \E i \in 1..Len(s) : s[i] = "\""
    THEN CHOOSE i \in 1..Len(s) : s[i] = "\"" /\ \A j \in 1..(i - 1) : s[j] # "\""
    ELSE 0

\* a string literal (s begins with its opening quote; the inputs hold no
\* backslash): it ends at the next quote and holds no control character
ScanStringBody(body, end) ==
    IF end = 0 \/ HasChar(SubSeq(body, 1, end - 1), ControlChars) THEN DecodeError
    ELSE Decoded(JsonValue("string", SubSeq(body, 1, end - 1), <<>>), DropFirst(body, end))

ScanString(s) == ScanStringBody(Tail(s), QuoteAt(Tail(s)))

\* the length of the digits an integer literal takes from s: a single 0, or a
\* run of digits that starts with 1-9; 0 when s starts with no digit
RECURSIVE DigitRun(_)
DigitRun(s) == IF s # <<>> /\ Head(s) \in DigitChars THEN 1 + DigitRun(Tail(s)) ELSE 0

IntegerLen(s) == IF s # <<>> /\ Head(s) = "0" THEN 1 ELSE DigitRun(s)

\* an integer literal with an optional minus sign (the inputs hold no
\* fraction and no exponent)
ScanUnsigned(sign, s) ==
    IF IntegerLen(s) = 0 THEN DecodeError
    ELSE Decoded(JsonValue("number", sign \o SubSeq(s, 1, IntegerLen(s)), <<>>),
                 DropFirst(s, IntegerLen(s)))

ScanNumber(s) == IF Head(s) = "-" THEN ScanUnsigned(<<"-">>, Tail(s)) ELSE ScanUnsigned(<<>>, s)

\* the literals null, true and false
ScanLiteral(s) ==
    IF StartsWith(s, <<"n","u","l","l">>) THEN Decoded(JsonValue("null", <<>>, <<>>), DropFirst(s, 4))
    ELSE IF StartsWith(s, <<"t","r","u","e">>) THEN Decoded(JsonValue("true", <<>>, <<>>), DropFirst(s, 4))
    ELSE IF StartsWith(s, <<"f","a","l","s","e">>) THEN Decoded(JsonValue("false", <<>>, <<>>), DropFirst(s, 5))
    ELSE DecodeError

RECURSIVE ParseValue(_), ParseElements(_, _), ParseMembers(_, _)

\* after an element of a list: a comma and the next element, or the bracket
NextElement(s, acc) ==
    IF s = <<>> THEN DecodeError
    ELSE IF Head(s) = "]" THEN Decoded(JsonValue("array", <<>>, acc), Tail(s))
    ELSE IF Head(s) = "," THEN ParseElements(SkipWs(Tail(s)), acc)
    ELSE DecodeError

AfterElement(r, acc) ==
    IF ~r.ok THEN DecodeError ELSE NextElement(SkipWs(r.rest), Append(acc, r.value))

ParseElements(s, acc) == AfterElement(ParseValue(s), acc)

\* a list, s being the text after its opening bracket and whitespace
ParseArray(s) ==
    IF s # <<>> /\ Head(s) = "]" THEN Decoded(JsonValue("array", <<>>, <<>>), Tail(s))
    ELSE ParseElements(s, <<>>)

\* after a member of an object: a comma and the next member, or the brace; a
\* key met again replaces the earlier member
NextMember(s, acc) ==
    IF s = <<>> THEN DecodeError
    ELSE IF Head(s) = "}" THEN Decoded(JsonValue("object", <<>>, acc), Tail(s))
    ELSE IF Head(s) = "," THEN ParseMembers(SkipWs(Tail(s)), acc)
    ELSE DecodeError

AfterMember(key, r, acc) ==
    IF ~r.ok THEN DecodeError ELSE NextMember(SkipWs(r.rest), With(acc, key, r.value))

AfterColon(key, s, acc) ==
    IF s = <<>> \/ Head(s) # ":" THEN DecodeError
    ELSE AfterMember(key, ParseValue(SkipWs(Tail(s))), acc)

AfterKey(k, acc) ==
    IF ~k.ok THEN DecodeError ELSE AfterColon(k.value.text, SkipWs(k.rest), acc)

ParseMembers(s, acc) ==
    IF s = <<>> \/ Head(s) # "\"" THEN DecodeError ELSE AfterKey(ScanString(s), acc)

\* an object, s being the text after its opening brace and whitespace
ParseObject(s) ==
    IF s # <<>> /\ Head(s) = "}" THEN Decoded(EmptyObject, Tail(s))
    ELSE ParseMembers(s, NoMembers)

\* one value at the start of s
ParseValue(s) ==
    IF s = <<>> THEN DecodeError
    ELSE IF Head(s) = "\"" THEN ScanString(s)
    ELSE IF Head(s) = "{" THEN ParseObject(SkipWs(Tail(s)))
    ELSE IF Head(s) = "[" THEN ParseArray(SkipWs(Tail(s)))
    ELSE IF Head(s) \in DigitChars \cup {"-"} THEN ScanNumber(s)
    ELSE ScanLiteral(s)

\* json.loads(text): one value with nothing but whitespace around it, or
\* JSONDecodeError
WholeText(r) == IF r.ok /\ SkipWs(r.rest) = <<>> THEN r ELSE DecodeError

Loads(text) == WholeText(ParseValue(SkipWs(text)))

\* the user_agent column: NULL, or a text
NullAgent == [null |-> TRUE, text |-> <<>>]
AgentText(text) == [null |-> FALSE, text |-> text]

\* get_user_agent without its except clause
GetUserAgentUncaught(user_agent) ==
    IF user_agent.null \/ user_agent.text = <<>>
        THEN [outcome |-> "returned", value |-> EmptyObject]
    ELSE IF Loads(user_agent.text).ok
        THEN [outcome |-> "returned", value |-> Loads(user_agent.text).value]
    ELSE [outcome |-> "JSONDecodeError", value |-> EmptyObject]

\* Contact.get_user_agent: {} for a missing or empty column, the decoded
\* value of the text, {} when decoding raises
GetUserAgent(user_agent) ==
    IF user_agent.null \/ user_agent.text = <<>>
        THEN [outcome |-> "returned", value |-> EmptyObject]
    ELSE IF Loads(user_agent.text).ok
        THEN [outcome |-> "returned", value |-> Loads(user_agent.text).value]
    ELSE [outcome |-> "returned", value |-> EmptyObject]

\* json.dumps of a one-key structure
AgentChrome == <<"{","\"","b","r","o","w","s","e","r","\"",":","\"","C","h","r","o","m","e","\"","}">>

\* the literal the documentation names
AgentNotJson == <<"n","o","t"," ","j","s","o","n">>

\* what a browser sends
AgentBrowser == <<"M","o","z","i","l","l","a","/","5",".","0">>

\* a structure cut short
AgentTruncated == <<"{","\"","b","r","o","w","s","e","r","\"",":","\"","C","h","r","o","m","e","\"">>

\* nesting, a repeated key, whitespace around
AgentNested == <<" ","{","\"","a","\"",":","[","\"","b","\"",",","1","]",",","\"","a","\"",":","{","}","}","\n">>

\* a list with a trailing comma
AgentTrailingComma == <<"[","1",",","]">>

\* a structure followed by more text
AgentExtraData == <<"{","\"","a","\"",":","\"","b","\"","}","x">>

\* a key without its colon
AgentNoColon == <<"{","\"","a","\""," ","\"","b","\"","}">>

\* a payload that is not a structure
AgentNumber == <<"1","2">>

BrowserKey == <<"b","r","o","w","s","e","r">>
ChromeText == <<"C","h","r","o","m","e">>

\* the user agents requests arrive with
UserAgents ==
    { NullAgent, AgentText(<<>>), AgentText(AgentChrome), AgentText(AgentNotJson),
      AgentText(AgentBrowser), AgentText(AgentTruncated), AgentText(AgentNested),
      AgentText(AgentTrailingComma), AgentText(AgentExtraData), AgentText(AgentNoColon),
      AgentText(AgentNumber) }

\* one submission that passes validation
AgentData == { b \in RequiredBodies : CreateContact(<<>>, 1, b).outcome = "created" }

\* ContactService.create_contact(**data, user_agent=user_agent): the column is
\* stored as given
CreateContactWithAgent(data, user_agent) ==
    /\ budget > 0
    /\ contacts' = Put(contacts, nextRow, With(NewContactRow(data), "user_agent", user_agent))
    /\ nextRow' = nextRow + 1
    /\ lastCall' = [op |-> "create_contact", id |-> nextRow, arg |-> "",
                    outcome |-> "created", msg |-> ""]
    /\ budget' = budget - 1
    /\ UNCHANGED <<users, nextId, workers, req, probe, projects, purged>>

\* contact.get_user_agent() on a stored contact
GetUserAgentCall(id) ==
    /\ id \in DOMAIN contacts
    /\ probe' = [arg |-> contacts[id].user_agent, stage |-> "parsed",
                 result |-> GetUserAgent(contacts[id].user_agent)]
    /\ UNCHANGED <<users, nextId, workers, budget, req, contacts, projects, nextRow,
                   purged, lastCall>>

NextAgent ==
    \/ \E data \in AgentData, user_agent \in UserAgents :
            CreateContactWithAgent(data, user_agent)
    \/ \E id \in 1..nextRow : GetUserAgentCall(id)

InitAgent ==
    /\ NoAccounts
    /\ NoProbe
    /\ NoRows
    /\ workers = 1
    /\ budget = MaxIntakeRequests

SpecAgent == InitAgent /\ [][NextAgent]_vars

---------------------------------------------------------------------------
(* The order of the checks of change_password *)

\* C22: change_password returns False for an absent account whatever the
\* passwords, returns False for a wrong old password even when the new one
\* breaks the password rule, and raises the rule's ValueError only for an
\* existing account whose old password matched.
C22_OldPasswordCheckedFirst ==
    [][ \A p \in Workers :
            (req[p].pc = "idle" /\ req'[p].op = "change_password") =>
                /\ req'[p].id \notin DOMAIN users => req'[p].outcome = "False"
                /\ (req'[p].id \in DOMAIN users
                        /\ ~CheckHash(users[req'[p].id].password, req'[p].password))
                        => req'[p].outcome = "False"
                /\ req'[p].outcome = "ValueError" =>
                        /\ req'[p].id \in DOMAIN users
                        /\ CheckHash(users[req'[p].id].password, req'[p].password)
                        /\ ValidatePassword(req'[p].new_password) # Valid ]_vars

\* a call with a wrong old password and a rule-breaking new one on a stored
\* account returned False
C22_Witness ==
    \E p \in Workers :
        /\ req[p].pc = "done" /\ req[p].op = "change_password" /\ req[p].outcome = "False"
        /\ req[p].id \in DOMAIN users
        /\ ~CheckHash(users[req[p].id].password, req[p].password)
        /\ ValidatePassword(req[p].new_password) # Valid

---------------------------------------------------------------------------
(* Field data handed to the services *)

\* the service operations that take field data for a stored row
FieldUserOps ==
    {"UserService.update_user", "UserService.change_password", "UserService.reset_password"}

\* field data that follows the rules and field data that breaks them
FieldArgs(op) ==
    CASE op = "UserService.update_user" ->
            {[email |-> <<"b","@","x",".","i","o">>], [email |-> <<"a","@","x">>],
             [username |-> <<"a","b">>]}
      [] op = "UserService.reset_password" ->
            {[password |-> Password2], [password |-> WeakPassword]}
      [] op = "UserService.change_password" ->
            {[old_password |-> Password1, new_password |-> Password2],
             [old_password |-> Password1, new_password |-> WeakPassword]}
      [] OTHER ->
            {[title |-> WebTitle], [title |-> <<"A">>], [project_slug |-> <<>>]}

\* projects offered for creation: valid ones, and the same with a one-letter
\* title
FieldProjects == RoutedProjects \cup { [d EXCEPT !.title = <<"A">>] : d \in RoutedProjects }

NextFields ==
    \/ /\ probe = Unprobed
       /\ \/ \E data \in FieldProjects : CreateProjectCall(data)
          \/ \E data \in ContactData : CreateContactCall(data)
          \/ /\ UNCHANGED <<probe, contacts, projects, nextRow, purged, lastCall>>
             /\ \E p \in Workers :
                    \/ \E u \in {RoutedUser, <<"a","b">>}, pw \in {Password1, WeakPassword} :
                            StartCreateUser(p, u, RoutedEmail, pw)
                    \/ CheckUsername(p)
                    \/ CheckEmail(p)
                    \/ Insert(p)
                    \/ Return(p)
    \/ /\ Busy = {}
       /\ \/ \E op \in FieldUserOps, id \in 1..nextId :
                \E arg \in FieldArgs(op) : UserCall(op, id, arg)
          \/ \E id \in 1..nextRow :
                \E arg \in FieldArgs("ProjectService.update_project") :
                    ProjectCall("ProjectService.update_project", id, arg)

InitFields ==
    /\ NoAccounts
    /\ NoProbe
    /\ NoRows
    /\ workers = 1
    /\ budget = MaxSeqRequests

SpecFields == InitFields /\ [][NextFields]_vars

\* C23: every stored record satisfies the validation rules of its service:
\* accounts the username, e-mail and password rules, contacts the rules of
\* create_contact, projects the rules of create_project.
C23_StoredRecordsValid ==
    /\ \A id \in DOMAIN users :
            /\ ValidateUserInput(users[id].username, users[id].email, Password1,
                                 <<>>, <<>>) = Valid
            /\ ValidatePassword(users[id].password[2]) = Valid
    /\ \A id \in DOMAIN contacts :
            ValidateContactInput(contacts[id].full_name, contacts[id].email,
                                 contacts[id].subject, contacts[id].message) = Valid
    /\ \A id \in DOMAIN projects :
            ValidateProjectInput(projects[id].title, projects[id].description,
                                 projects[id].problem, projects[id].process,
                                 projects[id].impact, projects[id].results,
                                 projects[id].project_slug) = Valid

---------------------------------------------------------------------------
(* The generic account update and the password hash *)

\* the calls that update an account, and the one that sets its password
AccountUpdateOps == {"UserRepository.update", "UserService.update_user"}

\* the columns of an account
AccountFields ==
    {"id", "username", "email", "password", "first_name", "last_name", "is_active"}

\* keyword arguments: a password, an unknown key, a column, a read-only
\* attribute, and the primary key together with a fresh username and e-mail
UpdateArgs(op) ==
    IF op \in AccountUpdateOps
    THEN {[password |-> Password2], [nickname |-> <<"n">>], [is_active |-> FALSE],
          [is_authenticated |-> FALSE]}
         \cup { [id |-> i, username |-> <<"a","b","e">>, email |-> <<"c","@","x",".","i","o">>] :
                    i \in 1..2 }
    ELSE {[password |-> Password2]}

NextAccountUpdate ==
    \/ /\ probe = Unprobed
       /\ UNCHANGED <<probe, contacts, projects, nextRow, purged, lastCall>>
       /\ \E p \in Workers :
            \/ \E u \in {<<"a","b","c">>, <<"a","b","d">>}, e \in {RoutedEmail, <<"b","@","x",".","i","o">>} :
                    StartCreateUser(p, u, e, Password1)
            \/ CheckUsername(p)
            \/ CheckEmail(p)
            \/ Insert(p)
            \/ Return(p)
    \/ /\ Busy = {}
       /\ \E op \in AccountUpdateOps \cup {"UserRepository.set_password"}, id \in 1..nextId :
            \E arg \in UpdateArgs(op) : UserCall(op, id, arg)

InitAccountUpdate ==
    /\ NoAccounts
    /\ NoProbe
    /\ NoRows
    /\ workers = 1
    /\ budget = MaxSeqRequests

SpecAccountUpdate == InitAccountUpdate /\ [][NextAccountUpdate]_vars

\* C24: a call of UserRepository.update or update_user leaves every stored
\* password hash as it was, whatever its keyword arguments, and a call whose
\* keys name no column of the account raises nothing and changes nothing.
C24_UpdateKeepsPasswordHash ==
    [][ (budget' < budget /\ probe'.stage = "checked" /\ probe'.arg.op \in AccountUpdateOps)
            => /\ \A i \in DOMAIN users :
                    i \in DOMAIN users' /\ users'[i].password = users[i].password
               /\ DOMAIN probe'.arg.arg \cap AccountFields = {}
                    => /\ users' = users
                       /\ probe'.result.outcome \in {"updated", "None"} ]_vars

---------------------------------------------------------------------------
(* The publication flags and the modification time *)

FlagOps == {"publish_project", "unpublish_project", "feature_project", "unfeature_project"}

\* the flag an operation sets, and the constant it sets it to
FlagOf(op) == IF op \in {"publish_project", "unpublish_project"} THEN "is_published"
              ELSE "is_featured"

FlagValue(op) == op \in {"publish_project", "feature_project"}

\* unpublish_project clearing the featured flag as well
FlagPatchUnpublishClearsFeatured(op) ==
    IF op = "unpublish_project" THEN [is_published |-> FALSE, is_featured |-> FALSE]
    ELSE [f \in {FlagOf(op)} |-> FlagValue(op)]

\* the keyword arguments the operation hands to ProjectRepository.update
FlagPatch(op) == [f \in {FlagOf(op)} |-> FlagValue(op)]

\* the clock read by a call: every call is later than the ones before it
Now == MaxSeqRequests - budget + 1

\* Project.updated_at (auto_now=True): save() sets it to the time of the save
Touch(table, id, now) == Put(table, id, With(table[id], "updated_at", now))

\* the projects offered for creation: every combination of the two flags
FlagProjects == { d \in ProjectData : d.title = ApiTitle /\ d.display_order = 0 }

\* a call of ProjectService.create_project: the row is saved at the time of
\* the call
CreateProjectAt(data) ==
    /\ budget > 0
    /\ LET result == CreateProject(projects, nextRow, Now, data)
       IN  /\ projects' = IF result.outcome = "created"
                          THEN Touch(result.table, nextRow, Now) ELSE result.table
           /\ nextRow' = IF result.outcome = "created" THEN nextRow + 1 ELSE nextRow
           /\ lastCall' = [op |-> "create_project",
                           id |-> IF result.outcome = "created" THEN nextRow ELSE 0,
                           arg |-> "", outcome |-> result.outcome, msg |-> result.msg]
    /\ budget' = budget - 1
    /\ UNCHANGED <<users, nextId, workers, req, probe, contacts, purged>>

\* a call of publish_project, unpublish_project, feature_project or
\* unfeature_project: ProjectRepository.update with the flag, saved at the
\* time of the call
FlagProject(op, id) ==
    /\ budget > 0
    /\ LET result == UpdateProject(projects, id, FlagPatch(op))
       IN  /\ projects' = IF result.outcome = "updated"
                          THEN Touch(result.table, id, Now) ELSE result.table
           /\ lastCall' = [op |-> op, id |-> id, arg |-> "",
                           outcome |-> result.outcome, msg |-> result.msg]
    /\ budget' = budget - 1
    /\ UNCHANGED <<users, nextId, workers, req, probe, contacts, nextRow, purged>>

NextFlags ==
    \/ \E data \in FlagProjects : CreateProjectAt(data)
    \/ \E op \in FlagOps, id \in 1..nextRow : FlagProject(op, id)

InitFlags ==
    /\ NoAccounts
    /\ NoProbe
    /\ NoRows
    /\ workers = 1
    /\ budget = MaxSeqRequests

SpecFlags == InitFlags /\ [][NextFlags]_vars

\* the step is a flag operation on a stored project
FlagStep == budget' < budget /\ lastCall'.op \in FlagOps /\ lastCall'.id \in DOMAIN projects

\* the table with every modification time set to 0
Untimed(table) == [i \in DOMAIN table |-> With(table[i], "updated_at", 0)]

\* C25 as stated: a flag operation sets its own flag to its constant and
\* leaves every other field of the project unchanged.
C25_FlagOnlyAllFields ==
    [][ FlagStep =>
            /\ projects'[lastCall'.id][FlagOf(lastCall'.op)] = FlagValue(lastCall'.op)
            /\ \A f \in DOMAIN projects[lastCall'.id] \ {FlagOf(lastCall'.op)} :
                    projects'[lastCall'.id][f] = projects[lastCall'.id][f] ]_vars

\* C25: a flag operation on a stored project sets its own flag to its
\* constant and leaves every other field except the modification time
\* unchanged, and every other project as it was; applying it again changes
\* nothing but the modification time; unpublishing a featured project leaves
\* it featured.
C25_FlagOnlyButModificationTime ==
    [][ FlagStep =>
            /\ lastCall'.outcome = "updated"
            /\ DOMAIN projects' = DOMAIN projects
            /\ \A i \in DOMAIN projects \ {lastCall'.id} : projects'[i] = projects[i]
            /\ projects'[lastCall'.id][FlagOf(lastCall'.op)] = FlagValue(lastCall'.op)
            /\ \A f \in DOMAIN projects[lastCall'.id] \ {FlagOf(lastCall'.op), "updated_at"} :
                    projects'[lastCall'.id][f] = projects[lastCall'.id][f]
            /\ projects'[lastCall'.id].updated_at = Now
            /\ Untimed(UpdateProject(projects', lastCall'.id, FlagPatch(lastCall'.op)).table)
                    = Untimed(projects')
            /\ (lastCall'.op = "unpublish_project" /\ projects[lastCall'.id].is_featured)
                    => projects'[lastCall'.id].is_featured ]_vars

\* a featured project was unpublished after it was created: it is still
\* featured, and modified later than created
C25_Witness ==
    /\ lastCall.op = "unpublish_project"
    /\ lastCall.outcome = "updated"
    /\ lastCall.id \in DOMAIN projects
    /\ projects[lastCall.id].is_featured
    /\ ~projects[lastCall.id].is_published
    /\ projects[lastCall.id].updated_at > projects[lastCall.id].created_at

---------------------------------------------------------------------------
(* Account update and activation requests racing a deletion *)

\* the handler of worker p answers
Answer(p, outcome, status, message, error) ==
    [req[p] EXCEPT !.pc = "done", !.outcome = outcome,
                   !.response = [status |-> status, message |-> message, error |-> error]]

\* PATCH bodies of the racing requests
RaceBodies == { [email |-> <<"b","@","x",".","i","o">>], [first_name |-> <<"n">>] }

\* user_detail, PUT/PATCH, up to service.get_user: 404 when the account is
\* absent, the serializer next
PatchUserGet(p, id, body) ==
    /\ CanStart(p)
    /\ req' = [req EXCEPT ![p] =
            IF id \notin DOMAIN users
            THEN [Idle EXCEPT !.op = "patch_user", !.via = "view", !.id = id,
                              !.pc = "done", !.outcome = "None",
                              !.response = [status |-> 404, message |-> "User not found",
                                            error |-> "User not found"]]
            ELSE IF UserUpdateErrors(users, body, TRUE) # Valid
            THEN [Idle EXCEPT !.op = "patch_user", !.via = "view", !.id = id,
                              !.pc = "done", !.outcome = "invalid",
                              !.response = [status |-> 400, message |-> "Validation failed",
                                            error |-> UserUpdateErrors(users, body, TRUE)]]
            ELSE [Idle EXCEPT !.op = "patch_user", !.via = "view", !.id = id,
                              !.pc = "found", !.patch = UserUpdateData(body)]]
    /\ budget' = budget - 1
    /\ UNCHANGED <<users, nextId, workers>>

\* service.update_user -> UserRepository.update, up to User.objects.get: when
\* the account is gone update returns None, and the handler serializes what
\* it got and answers 200
PatchUserLoad(p) ==
    /\ req[p].pc = "found"
    /\ req' = [req EXCEPT ![p] =
            IF req[p].id \in DOMAIN users
            THEN [req[p] EXCEPT !.pc = "write", !.loaded = users[req[p].id]]
            ELSE Answer(p, "None", 200, "User updated successfully", "")]
    /\ UNCHANGED <<users, nextId, workers, budget>>

\* UserRepository.update: the setattr loop and user.save(), then the answer
PatchUserSave(p) ==
    /\ req[p].pc = "write"
    /\ LET row == ApplyPatch(req[p].loaded, req[p].patch)
       IN  IF UniqueOk(users, req[p].id, row)
           THEN /\ users' = Put(users, req[p].id, row)
                /\ req' = [req EXCEPT ![p] =
                        Answer(p, "updated", 200, "User updated successfully", "")]
           ELSE /\ req' = [req EXCEPT ![p] =
                        Answer(p, "IntegrityError", 500,
                               "An error occurred while updating the user",
                               "UNIQUE constraint failed")]
                /\ UNCHANGED users
    /\ UNCHANGED <<nextId, workers, budget>>

\* activate_user_view / deactivate_user_view, up to service.activate_user /
\* deactivate_user: 404 when it returns False
SetActiveWrite(p, id, flag) ==
    /\ CanStart(p)
    /\ LET r == [Idle EXCEPT !.op = IF flag THEN "activate_user" ELSE "deactivate_user",
                             !.via = "view", !.id = id]
       IN  /\ users' = SetActive(users, id, flag).table
           /\ req' = [req EXCEPT ![p] =
                    IF SetActive(users, id, flag).ok THEN [r EXCEPT !.pc = "reread"]
                    ELSE [r EXCEPT !.pc = "done", !.outcome = "False",
                                   !.response = [status |-> 404, message |-> "User not found",
                                                 error |-> "User not found"]]]
    /\ budget' = budget - 1
    /\ UNCHANGED <<nextId, workers>>

\* service.get_user after the flag was written: the handler serializes what it
\* gets, the account or None, and answers 200
SetActiveReread(p) ==
    /\ req[p].pc = "reread"
    /\ req' = [req EXCEPT ![p] =
            Answer(p, IF req[p].id \in DOMAIN users THEN "user" ELSE "None", 200,
                   IF req[p].op = "activate_user" THEN "User activated successfully"
                   ELSE "User deactivated successfully", "")]
    /\ UNCHANGED <<users, nextId, workers, budget>>

NextDetailRace ==
    /\ UNCHANGED <<probe, contacts, projects, nextRow, purged, lastCall>>
    /\ \E p \in Workers :
            \/ \E e \in {RoutedEmail, <<"c","@","x",".","i","o">>} :
                    StartCreateUser(p, RoutedUser, e, Password1)
            \/ CheckUsername(p)
            \/ CheckEmail(p)
            \/ Insert(p)
            \/ \E id \in 1..nextId, body \in RaceBodies : PatchUserGet(p, id, body)
            \/ PatchUserLoad(p)
            \/ PatchUserSave(p)
            \/ \E id \in 1..nextId, flag \in BOOLEAN : SetActiveWrite(p, id, flag)
            \/ SetActiveReread(p)
            \/ \E id \in 1..nextId : DeleteUser(p, id)
            \/ Return(p)

InitDetailRace ==
    /\ NoAccounts
    /\ NoProbe
    /\ NoRows
    /\ workers = NumWorkers
    /\ budget = MaxRequests

SpecDetailRace == InitDetailRace /\ [][NextDetailRace]_vars

\* C26: when the account is gone at the moment an update handler's write, or
\* an activation handler's re-read, runs, the handler answers 404.
C26_GoneEntityAnswered404 ==
    [][ \A p \in Workers :
            (/\ req[p].pc \in {"found", "write", "reread"}
             /\ req'[p].pc = "done"
             /\ req[p].id \notin DOMAIN users)
                => req'[p].response.status = 404 ]_vars

---------------------------------------------------------------------------
(* Statistics *)

\* ContactRepository.count_by_status
CountByStatus(table, status) == Cardinality({i \in DOMAIN table : table[i].status = status})

\* ContactService.get_contact_statistics
GetContactStatistics(table) ==
    [total     |-> Cardinality(DOMAIN table),
     new       |-> CountByStatus(table, "new"),
     contacted |-> CountByStatus(table, "contacted"),
     closed    |-> CountByStatus(table, "closed")]

\* ProjectService.get_project_statistics over a count_featured that does not
\* ask for is_published
GetProjectStatisticsFeaturedUnpublished(table) ==
    [total     |-> Len(GetAll(table)),
     published |-> CountPublished(table),
     featured  |-> Cardinality({i \in DOMAIN table :
                        ~table[i].is_deleted /\ table[i].is_featured})]

\* ProjectService.get_project_statistics
GetProjectStatistics(table) ==
    [total     |-> Len(GetAll(table)),
     published |-> CountPublished(table),
     featured  |-> CountFeatured(table)]

\* UserService.get_user_statistics
GetUserStatistics(table) ==
    [total  |-> Cardinality(DOMAIN table),
     active |-> Cardinality({i \in DOMAIN table : table[i].is_active}),
     staff  |-> Cardinality({i \in DOMAIN table : table[i].is_staff})]

\* the operations of the three services that take an id
ServiceOps ==
    {"UserService.get_user", "UserService.update_user", "UserService.reset_password",
     "UserService.change_password", "UserService.activate_user",
     "UserService.deactivate_user", "UserService.delete_user",
     "ContactService.get_contact", "ContactService.update_contact_status",
     "ContactService.delete_contact",
     "ProjectService.get_project", "ProjectService.update_project",
     "ProjectService.publish_project", "ProjectService.unpublish_project",
     "ProjectService.feature_project", "ProjectService.unfeature_project",
     "ProjectService.soft_delete_project", "ProjectService.hard_delete_project"}

\* the arguments of the calls: those of OpArgs, and flags set through the
\* generic updates
ServiceArgs(op) ==
    CASE op = "UserService.update_user" -> OpArgs(op) \cup {[is_staff |-> TRUE]}
      [] op = "ProjectService.update_project" ->
            {[is_published |-> FALSE, is_featured |-> TRUE], [is_deleted |-> TRUE]}
      [] OTHER -> OpArgs(op)

\* projects offered for creation, with either value of each flag
CountedProjects ==
    { d \in ProjectData : d.title = ApiTitle /\ d.display_order = 0
                          /\ d.project_slug = <<"a","p","i">> }

NextService ==
    \/ /\ probe = Unprobed
       /\ \/ \E data \in CountedProjects : CreateProjectCall(data)
          \/ \E data \in RoutedContacts : CreateContactCall(data)
          \/ /\ UNCHANGED <<probe, contacts, projects, nextRow, purged, lastCall>>
             /\ \E p \in Workers :
                    \/ StartCreateUser(p, RoutedUser, RoutedEmail, Password1)
                    \/ CheckUsername(p)
                    \/ CheckEmail(p)
                    \/ Insert(p)
                    \/ Return(p)
    \/ /\ Busy = {}
       /\ \/ \E op \in UserOps \cap ServiceOps, id \in 1..nextId :
                \E arg \in ServiceArgs(op) : UserCall(op, id, arg)
          \/ \E op \in ContactOps \cap ServiceOps, id \in 1..nextRow :
                \E arg \in ServiceArgs(op) : ContactCall(op, id, arg)
          \/ \E op \in ProjectOps \cap ServiceOps, id \in 1..nextRow :
                \E arg \in ServiceArgs(op) : ProjectCall(op, id, arg)

InitService ==
    /\ NoAccounts
    /\ NoProbe
    /\ NoRows
    /\ workers = 1
    /\ budget = MaxSeqRequests

SpecService == InitService /\ [][NextService]_vars

\* C27: in every state reached through the services the statistics agree:
\* contacts total = new + contacted + closed; projects featured <= published
\* <= total, none of the three counting a deleted project; accounts active <=
\* total and staff <= total.
C27_StatisticsConsistent ==
    /\ GetContactStatistics(contacts).total
            = GetContactStatistics(contacts).new + GetContactStatistics(contacts).contacted
                + GetContactStatistics(contacts).closed
    /\ GetProjectStatistics(projects).featured <= GetProjectStatistics(projects).published
    /\ GetProjectStatistics(projects).published <= GetProjectStatistics(projects).total
    /\ GetProjectStatistics(projects).total
            = Cardinality({i \in DOMAIN projects : ~projects[i].is_deleted})
    /\ GetProjectStatistics(projects).published
            <= Cardinality({i \in DOMAIN projects :
                    ~projects[i].is_deleted /\ projects[i].is_published})
    /\ GetUserStatistics(users).active <= GetUserStatistics(users).total
    /\ GetUserStatistics(users).staff <= GetUserStatistics(users).total

\* statistics were called for while a contact had been moved on from 'new'
\* and a stored project was featured but unpublished
C27_Witness ==
    /\ GetContactStatistics(contacts).contacted > 0
    /\ GetContactStatistics(contacts).total > 0
    /\ \E i \in DOMAIN projects :
            ~projects[i].is_deleted /\ projects[i].is_featured /\ ~projects[i].is_published

---------------------------------------------------------------------------
(* The lengths of stored contact fields *)

\* C28: every stored contact has a full name of at least 2 characters, a
\* subject of at least 5 and a message of at least 10, measured on the stored
\* values.
C28_StoredContactMinLengths ==
    \A id \in DOMAIN contacts :
        /\ Len(contacts[id].full_name) >= MinFullNameLen
        /\ Len(contacts[id].subject) >= MinSubjectLen
        /\ Len(contacts[id].message) >= MinMessageLen

---------------------------------------------------------------------------
(* Deleted accounts *)

\* UserService.create_user in one piece: how a call on `table` ends
CreateUserOutcome(table, id, username, email, password) ==
    IF ValidateUserInput(username, email, password, <<>>, <<>>) # Valid THEN "ValueError"
    ELSE IF IdsByUsername(table, username) # {} THEN "ValueError"
    ELSE IF IdsByEmail(table, email) # {} THEN "ValueError"
    ELSE IF ~UniqueOk(table, id, NewUserRow(username, email, password)) THEN "IntegrityError"
    ELSE "created"

---------------------------------------------------------------------------
(* Direct lookups of soft-deleted projects *)

\* ProjectService._format_project_for_display: the fields of the display form
FormatProjectForDisplay(project) ==
    [f \in {"id", "title", "description", "problem", "process", "impact", "results",
            "project_slug", "is_featured", "created_at"} |-> project[f]]

\* get_project_for_display that also hides deleted projects
GetProjectForDisplayHidingDeleted(table, id) ==
    IF id \notin DOMAIN table \/ ~table[id].is_published \/ table[id].is_deleted
    THEN [absent |-> TRUE, display |-> <<>>]
    ELSE [absent |-> FALSE, display |-> FormatProjectForDisplay(table[id])]

\* ProjectService.get_project_for_display: None when get_by_id finds nothing
\* or the project is not published, its display form otherwise
GetProjectForDisplay(table, id) ==
    IF id \notin DOMAIN table \/ ~table[id].is_published
    THEN [absent |-> TRUE, display |-> <<>>]
    ELSE [absent |-> FALSE, display |-> FormatProjectForDisplay(table[id])]

\* C30: a soft-deleted project is still returned by get_project_by_slug with
\* its slug, and get_project_for_display returns None exactly for an id that
\* is not stored or whose project is unpublished, deleted or not; otherwise the
\* display form of the stored project.
C30_DeletedFlagAffectsListingsOnly ==
    /\ \A id \in DOMAIN projects :
            projects[id].is_deleted =>
                GetBySlug(projects, projects[id].project_slug) = projects[id]
    /\ \A id \in 1..nextRow :
            /\ GetProjectForDisplay(projects, id).absent
                    <=> (id \notin DOMAIN projects \/ ~projects[id].is_published)
            /\ ~GetProjectForDisplay(projects, id).absent =>
                    /\ GetProjectForDisplay(projects, id).display.title = projects[id].title
                    /\ GetProjectForDisplay(projects, id).display.project_slug
                            = projects[id].project_slug

\* a published project was soft-deleted: it is out of the listing, found by
\* its slug and has a display form
C30_Witness ==
    /\ lastCall.op = "soft_delete_project"
    /\ lastCall.outcome = "True"
    /\ lastCall.id \in DOMAIN projects
    /\ projects[lastCall.id].is_deleted
    /\ projects[lastCall.id].is_published
    /\ \A i \in 1..Len(GetAll(projects)) : GetAll(projects)[i] # projects[lastCall.id]
    /\ ~GetProjectForDisplay(projects, lastCall.id).absent

=============================================================================
